---- MODULE Spec2Model ----
(***************************************************************************)
(* single-table-dynamodb: the index directory (getConfig), the query      *)
(* planner (findIndexForQuery), the key codec (getCompositeKeyValue,      *)
(* dynamoProperty, padDecimalNumber, getSortkeyForBeginsWithQuery, getKey) *)
(* and the repository facade (get, put, delete, query, formatForDDB) of   *)
(* src/src/getRepository.ts and src/dist/single-table-dynamo.esm.js.      *)
(*                                                                         *)
(* JavaScript values are tagged records: a string, a number (integers     *)
(* only) or undefined.  An object is a function from the names of the     *)
(* fields it has to their values.  Key values are real strings, built by  *)
(* concatenation as the code builds them.                                  *)
(***************************************************************************)
EXTENDS Integers, Sequences, FiniteSets, TLC

VARIABLES
  config,   \* the index directory of the repository (getConfig's result)
  table,    \* the store: the set of items of the physical table
  arg,      \* the input of the call under examination (planner / codec runs)
  call,     \* the most recent call: operation, input, outcome, store requests
  pending,  \* for each caller, the position of its update: idle, between the
            \* read and the write, or done
  batch,    \* the batch call under way: its operations, its chunks and what
            \* each chunk has still to resolve
  docClient \* the store client of the process (_docClient): the number of
            \* the client, a new one after each replacement

vars == <<config, table, arg, call, pending, batch, docClient>>

(***************************************************************************)
(* Bounds                                                                  *)
(***************************************************************************)
\* numbers 0..MaxNum are the numeric inputs of the padding comparison
MaxNum == 12
\* the table holds at most MaxItems items in a repository run
MaxItems == 2
\* a batch call has at most MaxOps operations
MaxOps == 3
\* the most calls of a run on a repository with hooks
MaxCalls == 3
\* the most calls of WORKAROUND_updateAWSConfig in a run
MaxClients == 1

(***************************************************************************)
(* JavaScript values and strings                                           *)
(***************************************************************************)
Str(s) == [type |-> "string", str |-> s, num |-> 0]
Num(n) == [type |-> "number", str |-> "", num |-> n]
Undefined == [type |-> "undefined", str |-> "", num |-> 0]

\* thing[k]: the value of a property, undefined when the object lacks it
Prop(thing, k) == IF k \in DOMAIN thing THEN thing[k] ELSE Undefined

\* String(value)
String(v) ==
  CASE v.type = "string" -> v.str
    [] v.type = "number" -> ToString(v.num)
    [] OTHER -> "undefined"

\* a value in a boolean position (if (x), x && y, x || y)
Truthy(v) ==
  CASE v.type = "string" -> v.str # ""
    [] v.type = "number" -> v.num # 0
    [] OTHER -> FALSE

RECURSIVE PadStart(_, _, _)
\* String.prototype.padStart(n, c) for a one-character c
PadStart(s, n, c) == IF Len(s) >= n THEN s ELSE PadStart(c \o s, n, c)

RECURSIVE PadEnd(_, _, _)
\* String.prototype.padEnd(n, c) for a one-character c
PadEnd(s, n, c) == IF Len(s) >= n THEN s ELSE PadEnd(s \o c, n, c)

RECURSIVE Join(_, _)
\* Array.prototype.join(sep) on an array of strings
Join(parts, sep) ==
  IF parts = <<>> THEN ""
  ELSE IF Len(parts) = 1 THEN parts[1]
  ELSE parts[1] \o sep \o Join(Tail(parts), sep)

\* the elements of an array, as a set
Range(s) == {s[i] : i \in 1..Len(s)}

\* Array.prototype.indexOf, 0-based, -1 when absent
IndexOf(s, x) ==
  IF \E i \in 1..Len(s) : s[i] = x
  THEN (CHOOSE i \in 1..Len(s) : s[i] = x /\ \A j \in 1..(i-1) : s[j] # x) - 1
  ELSE -1

\* Array.prototype.slice(0, n)
Slice0(s, n) == SubSeq(s, 1, IF n < Len(s) THEN n ELSE Len(s))

\* String.prototype.startsWith
StartsWith(s, p) == Len(p) <= Len(s) /\ SubSeq(s, 1, Len(p)) = p

\* the characters of the key values, in code-unit order
Alphabet == "\"#,-.0123456789:ABCDEFGHIJKLMNOPQRSTUVWXYZ_abcdefghijklmnopqrstuvwxyz|"

\* the rank of a one-character string in code-unit order
CharCode(c) == CHOOSE i \in 1..Len(Alphabet) : SubSeq(Alphabet, i, i) = c

\* a < b for strings, as JavaScript and the store compare them
StringLess(a, b) ==
  \/ /\ Len(a) < Len(b)
     /\ SubSeq(b, 1, Len(a)) = a
  \/ \E i \in 1..(IF Len(a) < Len(b) THEN Len(a) ELSE Len(b)) :
       /\ SubSeq(a, 1, i-1) = SubSeq(b, 1, i-1)
       /\ CharCode(SubSeq(a, i, i)) < CharCode(SubSeq(b, i, i))

(***************************************************************************)
(* The index directory: getConfig and the index constructors               *)
(***************************************************************************)
\* "__lsi" + which
getLSIName(which) == "__lsi" \o ToString(which)

\* "__lsi" + which
getLSISortKeyAttribute(which) == "__lsi" \o ToString(which)

\* "__gsi" + which
getGSIName(which) == "__gsi" \o ToString(which)

\* "__gsi" + type + which
getGSIAttributeName(which, type) == "__gsi" \o type \o ToString(which)

\* the table name used when the arguments give none
defaultTableName == "SingleTable"

\* an optional property of the configuration arguments
Has(obj, k) == k \in DOMAIN obj

getPrimaryIndex(cfg, tag) ==
  [ isCustomIndex |-> FALSE,
    hashKeyFields |-> cfg.hashKeyFields,
    hashKeyDescriptor |-> cfg.objectName,
    hashKeyAttribute |-> "__hashKey",
    sortKeyFields |-> IF Has(cfg, "sortKeyFields") THEN cfg.sortKeyFields ELSE <<>>,
    sortKeyDescriptor |-> cfg.objectName,
    sortKeyAttribute |-> "__sortKey",
    indexName |-> "",
    type |-> "primaryIndex",
    tag |-> tag ]

isPrimaryQueryArg(thing) == Has(thing, "isPrimary") /\ thing.isPrimary

isLSIQueryArg(thing) == Has(thing, "sortKeyFields") /\ ~Has(thing, "hashKeyFields")

isGSIQueryArg(thing) == Has(thing, "sortKeyFields") /\ Has(thing, "hashKeyFields")

isCustomGSIQueryArg(thing) ==
  /\ Has(thing, "hashKeyAttributeName") /\ thing.hashKeyAttributeName # ""
  /\ Has(thing, "sortKeyAttributeName") /\ thing.sortKeyAttributeName # ""

getLSIIndex(queryName, i, cfg) ==
  [ isCustomIndex |-> FALSE,
    hashKeyFields |-> cfg.hashKeyFields,
    hashKeyDescriptor |-> cfg.objectName,
    hashKeyAttribute |-> "__hashKey",
    sortKeyFields |-> i.sortKeyFields,
    sortKeyDescriptor |-> queryName,
    sortKeyAttribute |-> getLSISortKeyAttribute(i.which),
    indexName |-> getLSIName(i.which),
    type |-> "localSecondaryIndex",
    tag |-> queryName ]

getCustomGSIIndex(queryName, i, cfg) ==
  [ isCustomIndex |-> TRUE,
    hashKeyFields |-> <<>>,
    hashKeyDescriptor |-> cfg.objectName \o "-" \o queryName,
    hashKeyAttribute |-> i.hashKeyAttributeName,
    sortKeyFields |-> <<>>,
    sortKeyDescriptor |-> queryName,
    sortKeyAttribute |-> i.sortKeyAttributeName,
    indexName |-> IF Has(i, "indexName") /\ i.indexName # "" THEN i.indexName ELSE queryName,
    type |-> "globalSecondaryIndex",
    tag |-> queryName ]

getGSIIndex(queryName, i, cfg) ==
  [ isCustomIndex |-> FALSE,
    hashKeyFields |-> i.hashKeyFields,
    hashKeyDescriptor |-> cfg.objectName \o "-" \o queryName,
    hashKeyAttribute |-> getGSIAttributeName(i.which, "Hash"),
    sortKeyFields |-> i.sortKeyFields,
    sortKeyDescriptor |-> queryName,
    sortKeyAttribute |-> getGSIAttributeName(i.which, "Sort"),
    indexName |-> getGSIName(i.which),
    type |-> "globalSecondaryIndex",
    tag |-> queryName ]

\* the thrown value of a query declaration that fits no index kind
InvalidQuery(queryName) == [error |-> TRUE, message |-> queryName \o " is not valid"]

\* cfg.queries is the array of <<name, declaration>> in declaration order
\* (the order of Object.keys)
convertQueryArgToIndex(q, cfg) ==
  LET queryName == q[1]
      index == q[2]
  IN  IF isPrimaryQueryArg(index) THEN getPrimaryIndex(cfg, queryName)
      ELSE IF isLSIQueryArg(index) THEN getLSIIndex(queryName, index, cfg)
      ELSE IF isGSIQueryArg(index) THEN getGSIIndex(queryName, index, cfg)
      ELSE IF isCustomGSIQueryArg(index) THEN getCustomGSIIndex(queryName, index, cfg)
      ELSE InvalidQuery(queryName)

\* the reduce over indexes: a later index replaces an earlier one of its tag
IndexesByTag(indexes) ==
  [ t \in {indexes[n].tag : n \in 1..Len(indexes)} |->
      indexes[CHOOSE n \in 1..Len(indexes) :
                /\ indexes[n].tag = t
                /\ \A m \in (n+1)..Len(indexes) : indexes[m].tag # t] ]

\* getConfig for arguments all of whose query declarations convert
getConfig(argsIn) ==
  LET queries == IF Has(argsIn, "queries") THEN argsIn.queries ELSE <<>>
      indexes == <<getPrimaryIndex(argsIn, "")>>
                   \o [n \in 1..Len(queries) |-> convertQueryArgToIndex(queries[n], argsIn)]
  IN  [ tableName |-> IF Has(argsIn, "tableName") /\ argsIn.tableName # ""
                      THEN argsIn.tableName ELSE defaultTableName,
        compositeKeySeparator |->
          IF Has(argsIn, "compositeKeySeparator") /\ argsIn.compositeKeySeparator # ""
          THEN argsIn.compositeKeySeparator ELSE "#",
        shouldPadNumbersInIndexes |->
          IF Has(argsIn, "shouldPadNumbersInIndexes")
          THEN argsIn.shouldPadNumbersInIndexes ELSE TRUE,
        objectName |-> argsIn.objectName,
        primaryIndex |-> indexes[1],
        indexes |-> indexes,
        indexesByTag |-> IndexesByTag(indexes) ]

\* the positions of the query declarations that convertQueryArgToIndex
\* rejects
InvalidQueries(argsIn) ==
  LET queries == IF Has(argsIn, "queries") THEN argsIn.queries ELSE <<>>
  IN  {n \in 1..Len(queries) :
         /\ ~isPrimaryQueryArg(queries[n][2])
         /\ ~isLSIQueryArg(queries[n][2])
         /\ ~isGSIQueryArg(queries[n][2])
         /\ ~isCustomGSIQueryArg(queries[n][2])}

\* getConfig as a call: the map over the query names throws at the first
\* declaration that does not convert, otherwise the directory is returned
getConfigOutcome(argsIn) ==
  IF InvalidQueries(argsIn) # {}
  THEN [kind |-> "throw",
        message |-> InvalidQuery(argsIn.queries[
                      CHOOSE n \in InvalidQueries(argsIn) :
                        \A m \in InvalidQueries(argsIn) : n <= m][1]).message]
  ELSE [kind |-> "return", value |-> getConfig(argsIn)]

\* Object.keys(config.indexesByTag): the tags in order of first insertion
TagKeys(cfg) ==
  LET firsts == {n \in 1..Len(cfg.indexes) :
                   \A m \in 1..(n-1) : cfg.indexes[m].tag # cfg.indexes[n].tag}
      RECURSIVE Ordered(_, _)
      Ordered(n, acc) ==
        IF n > Len(cfg.indexes) THEN acc
        ELSE Ordered(n + 1, IF n \in firsts THEN Append(acc, cfg.indexes[n].tag) ELSE acc)
  IN  Ordered(1, <<>>)

(***************************************************************************)
(* The key codec                                                           *)
(***************************************************************************)
\* padStart(18, '0') of the integer part
IntegerWidth == 18
\* padEnd(2, '0') of the fraction part
FractionWidth == 2

\* {...f, ...g}: object spread, g's properties win
Extend(f, g) ==
  [k \in (DOMAIN f) \cup (DOMAIN g) |-> IF k \in DOMAIN g THEN g[k] ELSE f[k]]

\* the empty object {}
EmptyObject == [k \in {} |-> Undefined]

\* padDecimalNumber without padStart on the integer part
padDecimalNumber_NoPadStart(value) ==
  LET before == String(value)
      after == ""
  IN  Join(<<before, PadEnd(after, FractionWidth, "0")>>, ".")

\* String(value).split('.') of an integer has one part: before is the
\* digits and after is undefined, replaced by ''
padDecimalNumber(value) ==
  LET before == String(value)
      after == ""
  IN  Join(<<PadStart(before, IntegerWidth, "0"), PadEnd(after, FractionWidth, "0")>>, ".")

dynamoProperty(key, value, shouldPadNumbersInIndexes) ==
  LET stringified ==
        IF value.type = "number" /\ value.num >= 0 /\ shouldPadNumbersInIndexes
        THEN padDecimalNumber(value)
        ELSE String(value)
  IN  key \o "-" \o stringified

\* getCompositeKeyValue with the properties taken from the last to the first
getCompositeKeyValue_Reversed(thing, properties, descriptor, separator, shouldPadNumbersInIndexes) ==
  Join(<<descriptor>> \o
         [n \in 1..Len(properties) |->
            dynamoProperty(properties[Len(properties) + 1 - n],
                           Prop(thing, properties[Len(properties) + 1 - n]),
                           shouldPadNumbersInIndexes)],
       separator)

getCompositeKeyValue(thing, properties, descriptor, separator, shouldPadNumbersInIndexes) ==
  Join(<<descriptor>> \o
         [n \in 1..Len(properties) |->
            dynamoProperty(properties[n], Prop(thing, properties[n]),
                           shouldPadNumbersInIndexes)],
       separator)

getSortkeyForBeginsWithQuery(thing, indexFields, descriptor, compositeKeySeparator, shouldPadNumbersInIndexes) ==
  LET RECURSIVE Loop(_, _)
      Loop(i, fields) ==
        IF i > Len(indexFields) THEN fields
        ELSE IF indexFields[i] \in DOMAIN thing
             THEN Loop(i + 1,
                       Append(fields,
                              dynamoProperty(indexFields[i],
                                             Str(String(thing[indexFields[i]])),
                                             shouldPadNumbersInIndexes)))
             ELSE fields
  IN  Join(Loop(1, <<descriptor>>), compositeKeySeparator)

\* the object literal of two computed keys; the second wins on equal names
getKey(id, i, separator, shouldPadNumbersInIndexes) ==
  [a \in {i.hashKeyAttribute, i.sortKeyAttribute} |->
     IF a = i.sortKeyAttribute
     THEN Str(getCompositeKeyValue(id, i.sortKeyFields, i.sortKeyDescriptor,
                                   separator, shouldPadNumbersInIndexes))
     ELSE Str(getCompositeKeyValue(id, i.hashKeyFields, i.hashKeyDescriptor,
                                   separator, shouldPadNumbersInIndexes))]

(***************************************************************************)
(* The query planner                                                       *)
(***************************************************************************)
\* results of a call: a returned value or a thrown one
Returned(v) == [kind |-> "return", value |-> v]
Thrown(m) == [kind |-> "throw", message |-> m]
Null == [isNull |-> TRUE]

\* if (where.index): the property is there and is not ''
WhereIndexSet(where) == Has(where, "index") /\ where.index # ""

\* if (where.sortBy)
WhereSortBySet(where) == Has(where, "sortBy") /\ where.sortBy # ""

UnknownIndexMessage(where, cfg) ==
  "The index \"" \o where.index
    \o "\" does not exist, the following are valid indexes: "
    \o Join(TagKeys(cfg), ",")

\* the body of the loop for one index: TRUE when the loop returns this index
\* the loop body without the test of where.sortBy
LoopReturns_IgnoresSortBy(where, index) ==
  LET neededFields == DOMAIN where.args
      queryContainsAllHashKeyFields ==
        \A n \in 1..Len(index.hashKeyFields) : index.hashKeyFields[n] \in neededFields
      afterHash == neededFields \ Range(index.hashKeyFields)
      sortKeyFieldIndex == Cardinality(afterHash)
      afterSort == afterHash \ Range(Slice0(index.sortKeyFields, sortKeyFieldIndex))
  IN  /\ queryContainsAllHashKeyFields
      /\ afterSort = {}

\* the loop body with every sort field removed from the needed fields, not
\* only the first sortKeyFieldIndex of them
LoopReturns_AnySortField(where, index) ==
  LET neededFields == DOMAIN where.args
      queryContainsAllHashKeyFields ==
        \A n \in 1..Len(index.hashKeyFields) : index.hashKeyFields[n] \in neededFields
      afterHash == neededFields \ Range(index.hashKeyFields)
      sortKeyFieldIndex == Cardinality(afterHash)
      afterSort == afterHash \ Range(index.sortKeyFields)
  IN  /\ queryContainsAllHashKeyFields
      /\ afterSort = {}
      /\ IF WhereSortBySet(where)
         THEN IndexOf(index.sortKeyFields, where.sortBy) = sortKeyFieldIndex
         ELSE TRUE

LoopReturns(where, index) ==
  LET neededFields == DOMAIN where.args
      queryContainsAllHashKeyFields ==
        \A n \in 1..Len(index.hashKeyFields) : index.hashKeyFields[n] \in neededFields
      afterHash == neededFields \ Range(index.hashKeyFields)
      sortKeyFieldIndex == Cardinality(afterHash)
      afterSort == afterHash \ Range(Slice0(index.sortKeyFields, sortKeyFieldIndex))
  IN  /\ queryContainsAllHashKeyFields
      /\ afterSort = {}
      /\ IF WhereSortBySet(where)
         THEN IndexOf(index.sortKeyFields, where.sortBy) = sortKeyFieldIndex
         ELSE TRUE

\* findIndexForQuery with the loop run from the last index to the first
findIndexForQuery_LastFirst(where, cfg) ==
  IF WhereIndexSet(where)
  THEN IF where.index \in DOMAIN cfg.indexesByTag
       THEN Returned(cfg.indexesByTag[where.index])
       ELSE Thrown(UnknownIndexMessage(where, cfg))
  ELSE LET indexes == cfg.indexes
           RECURSIVE Loop(_)
           Loop(i) ==
             IF i < 1 THEN Returned(Null)
             ELSE IF LoopReturns(where, indexes[i]) THEN Returned(indexes[i])
             ELSE Loop(i - 1)
       IN  Loop(Len(indexes))

\* findIndexForQuery without the where.index branch
findIndexForQuery_IgnoresIndex(where, cfg) ==
  LET indexes == cfg.indexes
      RECURSIVE Loop(_)
      Loop(i) ==
        IF i > Len(indexes) THEN Returned(Null)
        ELSE IF LoopReturns(where, indexes[i]) THEN Returned(indexes[i])
        ELSE Loop(i + 1)
  IN  Loop(1)

findIndexForQuery(where, cfg) ==
  IF WhereIndexSet(where)
  THEN IF where.index \in DOMAIN cfg.indexesByTag
       THEN Returned(cfg.indexesByTag[where.index])
       ELSE Thrown(UnknownIndexMessage(where, cfg))
  ELSE LET indexes == cfg.indexes
           RECURSIVE Loop(_)
           Loop(i) ==
             IF i > Len(indexes) THEN Returned(Null)
             ELSE IF LoopReturns(where, indexes[i]) THEN Returned(indexes[i])
             ELSE Loop(i + 1)
       IN  Loop(1)

(***************************************************************************)
(* The store: one physical table with the key schema of createTable        *)
(***************************************************************************)
\* the key of an item in the table
PrimaryKeyOf(item) == <<Prop(item, "__hashKey"), Prop(item, "__sortKey")>>

\* DocumentClient.put: the item replaces the item of the same key
StorePut(items, request) ==
  {x \in items : PrimaryKeyOf(x) # PrimaryKeyOf(request.Item)} \cup {request.Item}

\* DocumentClient.get: the response, with Item when the key is there
StoreGet(items, request) ==
  LET found == {x \in items : PrimaryKeyOf(x) = PrimaryKeyOf(request.Key)}
  IN  IF found = {} THEN EmptyObject ELSE [Item |-> CHOOSE x \in found : TRUE]

\* DocumentClient.delete
StoreDelete(items, request) ==
  {x \in items : PrimaryKeyOf(x) # PrimaryKeyOf(request.Key)}

\* the order of the items of one partition of an index: by the sort
\* attribute, then by the table key
ItemBefore(x, y, sortAttribute) ==
  LET sx == String(x[sortAttribute])
      sy == String(y[sortAttribute])
      px == x["__hashKey"].str \o "\"" \o x["__sortKey"].str
      py == y["__hashKey"].str \o "\"" \o y["__sortKey"].str
  IN  \/ StringLess(sx, sy)
      \/ sx = sy /\ StringLess(px, py)

\* a set of items as the array the store scans, forward or backward
Scan(found, sortAttribute, forward) ==
  IF found = {} THEN <<>>
  ELSE CHOOSE seq \in [1..Cardinality(found) -> found] :
         /\ Range(seq) = found
         /\ \A m, n \in 1..Cardinality(found) :
              m < n => IF forward THEN ItemBefore(seq[m], seq[n], sortAttribute)
                       ELSE ItemBefore(seq[n], seq[m], sortAttribute)

\* the items of an array after the one the cursor names
AfterCursor(seq, cursor) ==
  IF \E n \in 1..Len(seq) : PrimaryKeyOf(seq[n]) = PrimaryKeyOf(cursor)
  THEN LET n == CHOOSE m \in 1..Len(seq) : PrimaryKeyOf(seq[m]) = PrimaryKeyOf(cursor)
       IN  SubSeq(seq, n + 1, Len(seq))
  ELSE seq

\* the key attributes of the table or of the index a request names, as
\* the table was provisioned for the directory
KeySchema(request, cfg) ==
  IF "IndexName" \in DOMAIN request
  THEN LET i == CHOOSE x \in Range(cfg.indexes) : x.indexName = request.IndexName
       IN  <<i.hashKeyAttribute, i.sortKeyAttribute>>
  ELSE <<"__hashKey", "__sortKey">>

\* the key of the last evaluated item: the table key and the index key
LastKey(item, request, cfg) ==
  [a \in {"__hashKey", "__sortKey"} \cup Range(KeySchema(request, cfg)) |-> item[a]]

\* DocumentClient.query: the items of the partition whose sort attribute
\* begins with the prefix, in scan order, from the cursor, up to Limit;
\* LastEvaluatedKey is there when the scan stopped at Limit
StoreQuery(items, request, cfg) ==
  LET names == request.ExpressionAttributeNames
      values == request.ExpressionAttributeValues
      hashAttribute == names["#hKeyAttribute"]
      sortAttribute == KeySchema(request, cfg)[2]
      found == {x \in items :
                  /\ hashAttribute \in DOMAIN x
                  /\ sortAttribute \in DOMAIN x
                  /\ x[hashAttribute] = values[":hKey"]
                  /\ ("#sKeyAttribute" \in DOMAIN names) =>
                       /\ names["#sKeyAttribute"] \in DOMAIN x
                       /\ StartsWith(String(x[names["#sKeyAttribute"]]),
                                     String(values[":sKey"]))}
      scanned == Scan(found, sortAttribute, request.ScanIndexForward)
      rest == IF "ExclusiveStartKey" \in DOMAIN request
              THEN AfterCursor(scanned, request.ExclusiveStartKey)
              ELSE scanned
      page == Slice0(rest, request.Limit)
  IN  IF Len(rest) >= request.Limit /\ Len(page) > 0
      THEN [Items |-> page, LastEvaluatedKey |-> LastKey(page[Len(page)], request, cfg)]
      ELSE [Items |-> page]

(***************************************************************************)
(* The repository facade                                                   *)
(***************************************************************************)
\* an object of one property
Single(k, v) == [x \in {k} |-> v]

\* cond && {...}: the object when the condition is truthy, nothing otherwise
Spread(cond, obj) == IF cond THEN obj ELSE EmptyObject

getDataFromDocument(doc) ==
  [k \in {x \in DOMAIN doc : ~StartsWith(x, "__")} |-> doc[k]]

\* formatForDDB without the filter on isCustomIndex
formatForDDB_NoFilter(thing, cfg) ==
  LET withType == Extend(thing, Single("__objectType", Str(cfg.objectName)))
      RECURSIVE ForEach(_, _)
      ForEach(n, obj) ==
        IF n > Len(cfg.indexes) THEN obj
        ELSE ForEach(n + 1,
                     Extend(obj, getKey(thing, cfg.indexes[n], cfg.compositeKeySeparator,
                                        cfg.shouldPadNumbersInIndexes)))
  IN  ForEach(1, withType)

formatForDDB(thing, cfg) ==
  LET withType == Extend(thing, Single("__objectType", Str(cfg.objectName)))
      RECURSIVE ForEach(_, _)
      ForEach(n, obj) ==
        IF n > Len(cfg.indexes) THEN obj
        ELSE IF cfg.indexes[n].isCustomIndex THEN ForEach(n + 1, obj)
        ELSE ForEach(n + 1,
                     Extend(obj, getKey(thing, cfg.indexes[n], cfg.compositeKeySeparator,
                                        cfg.shouldPadNumbersInIndexes)))
  IN  ForEach(1, withType)

\* config.indexes.filter(i => !i.isCustomIndex), as a set
NonCustomIndexes(cfg) == {i \in Range(cfg.indexes) : ~i.isCustomIndex}

\* repo.getKey
repoGetKey(id, cfg) ==
  getKey(id, cfg.primaryIndex, cfg.compositeKeySeparator, cfg.shouldPadNumbersInIndexes)

\* getSortKeyAndHashKeyForQuery without the branch on isCustomIndex
getSortKeyAndHashKeyForQuery_AlwaysComposite(where, index, cfg) ==
  [hashKey |-> Str(getCompositeKeyValue(where.args, index.hashKeyFields,
                                        index.hashKeyDescriptor,
                                        cfg.compositeKeySeparator,
                                        cfg.shouldPadNumbersInIndexes)),
   sortKey |-> Str(getSortkeyForBeginsWithQuery(where.args, index.sortKeyFields,
                                                index.sortKeyDescriptor,
                                                cfg.compositeKeySeparator,
                                                cfg.shouldPadNumbersInIndexes))]

getSortKeyAndHashKeyForQuery(where, index, cfg) ==
  IF index.isCustomIndex
  THEN [hashKey |-> Prop(where.args, index.hashKeyAttribute),
        sortKey |-> Prop(where.args, index.sortKeyAttribute)]
  ELSE [hashKey |-> Str(getCompositeKeyValue(where.args, index.hashKeyFields,
                                             index.hashKeyDescriptor,
                                             cfg.compositeKeySeparator,
                                             cfg.shouldPadNumbersInIndexes)),
        sortKey |-> Str(getSortkeyForBeginsWithQuery(where.args, index.sortKeyFields,
                                                     index.sortKeyDescriptor,
                                                     cfg.compositeKeySeparator,
                                                     cfg.shouldPadNumbersInIndexes))]

\* where.limit || 5
\* Mapper.computeIndexFields(src, index) for an index without fields: the
\* partition key property is always set, the sort key property when the
\* index names one and src has a truthy value for it
computeIndexFields(src, index) ==
  Extend(Single(index.partitionKey, Prop(src, index.partitionKey)),
         Spread(Has(index, "sortKey") /\ index.sortKey # ""
                  /\ Truthy(Prop(src, index.sortKey)),
                Single(index.sortKey, Prop(src, index.sortKey))))

DefaultLimit == 5

\* getQueryArgs with Limit taken from where.limit whenever it is given,
\* zero included
getQueryArgs_LimitAsGiven(where, index, cfg) ==
  LET keys == getSortKeyAndHashKeyForQuery(where, index, cfg)
      sortKey == keys.sortKey
      hashKey == keys.hashKey
  IN  Extend(
        Extend(
          Extend([TableName |-> cfg.tableName],
                 Spread(index.indexName # "", [IndexName |-> index.indexName])),
          [ Limit |-> IF Has(where, "limit") THEN where.limit ELSE DefaultLimit,
            ScanIndexForward |-> Has(where, "sort") /\ where.sort = "asc",
            KeyConditionExpression |->
              "#hKeyAttribute = :hKey " \o
                (IF Truthy(sortKey) THEN "and begins_with(#sKeyAttribute, :sKey)" ELSE ""),
            ExpressionAttributeNames |->
              Extend(Single("#hKeyAttribute", index.hashKeyAttribute),
                     Spread(Truthy(sortKey), Single("#sKeyAttribute", index.sortKeyAttribute))),
            ExpressionAttributeValues |->
              Extend(Single(":hKey", hashKey),
                     Spread(Truthy(sortKey), Single(":sKey", sortKey))) ]),
        Spread(Has(where, "cursor"), [ExclusiveStartKey |-> where.cursor]))

getQueryArgs(where, index, cfg) ==
  LET keys == getSortKeyAndHashKeyForQuery(where, index, cfg)
      sortKey == keys.sortKey
      hashKey == keys.hashKey
  IN  Extend(
        Extend(
          Extend([TableName |-> cfg.tableName],
                 Spread(index.indexName # "", [IndexName |-> index.indexName])),
          [ Limit |-> IF Has(where, "limit") /\ where.limit # 0
                      THEN where.limit ELSE DefaultLimit,
            ScanIndexForward |-> Has(where, "sort") /\ where.sort = "asc",
            KeyConditionExpression |->
              "#hKeyAttribute = :hKey " \o
                (IF Truthy(sortKey) THEN "and begins_with(#sKeyAttribute, :sKey)" ELSE ""),
            ExpressionAttributeNames |->
              Extend(Single("#hKeyAttribute", index.hashKeyAttribute),
                     Spread(Truthy(sortKey), Single("#sKeyAttribute", index.sortKeyAttribute))),
            ExpressionAttributeValues |->
              Extend(Single(":hKey", hashKey),
                     Spread(Truthy(sortKey), Single(":sKey", sortKey))) ]),
        Spread(Has(where, "cursor"), [ExclusiveStartKey |-> where.cursor]))

\* the result of executeQuery with the where clause given back as it came,
\* its cursor not replaced
QueryResult_KeepsCursor(where, res) ==
  Extend([results |-> [n \in 1..Len(res.Items) |-> getDataFromDocument(res.Items[n])]],
         Spread(Has(res, "LastEvaluatedKey"), [nextPageArgs |-> where]))

\* the result of executeQuery for the store's response
QueryResult(where, res) ==
  Extend([results |-> [n \in 1..Len(res.Items) |-> getDataFromDocument(res.Items[n])]],
         Spread(Has(res, "LastEvaluatedKey"),
                [nextPageArgs |-> Extend(where, [cursor |-> res.LastEvaluatedKey])]))

NoIndexMessage == "there isnt an index configured for this query"

\* new AWS.DynamoDB.DocumentClient() at module load
DefaultClient == 0

\* a request to the store
Request(method, params) == [method |-> method, params |-> params, client |-> docClient]

\* the record of a call
Call(op, input, result, requests) ==
  [op |-> op, input |-> input, result |-> result, requests |-> requests]

NoArg == [kind |-> "none"]

\* no batch call is under way
NoBatch == [phase |-> "idle"]

(***************************************************************************)
(* Operations of the repository                                            *)
(***************************************************************************)
\* repo.put(thing) = repo.overwrite(thing)
Put(thing) ==
  LET request == Request("put", [TableName |-> config.tableName,
                                 Item |-> formatForDDB(thing, config)])
  IN  /\ Cardinality(StorePut(table, request.params)) <= MaxItems
      /\ table' = StorePut(table, request.params)
      /\ call' = Call("put", thing, Returned(thing), <<request>>)
      /\ UNCHANGED <<config, arg, pending, batch, docClient>>

\* repo.get(id)
Get(id) ==
  LET request == Request("get", [TableName |-> config.tableName,
                                 Key |-> repoGetKey(id, config)])
      res == StoreGet(table, request.params)
  IN  /\ call' = Call("get", id,
                      IF ~Has(res, "Item") THEN Returned(Null)
                      ELSE Returned(getDataFromDocument(res.Item)),
                      <<request>>)
      /\ UNCHANGED <<config, table, arg, pending, batch, docClient>>

\* repo.delete(id)
Delete(id) ==
  LET request == Request("delete", [TableName |-> config.tableName,
                                    Key |-> repoGetKey(id, config)])
  IN  /\ table' = StoreDelete(table, request.params)
      /\ call' = Call("delete", id, Returned(TRUE), <<request>>)
      /\ UNCHANGED <<config, arg, pending, batch, docClient>>

\* the callers of the repository: each awaits its own calls
Callers == {"a", "b"}

\* a caller that has no update under way
Idle == [pc |-> "idle"]

\* { ...old, ...thing }: spreading null adds no property
Updated(old, thing) == Extend(IF old = Null THEN EmptyObject ELSE old, thing)

\* the item of the table under the key of id, or null: what repo.get(id)
\* resolves to
Stored(items, id, cfg) ==
  LET res == StoreGet(items, [TableName |-> cfg.tableName, Key |-> repoGetKey(id, cfg)])
  IN  IF ~Has(res, "Item") THEN Null ELSE getDataFromDocument(res.Item)

\* repo.update(id, thing) up to its await: repo.get(id) has resolved to old
UpdateRead(c, id, thing) ==
  LET request == Request("get", [TableName |-> config.tableName,
                                 Key |-> repoGetKey(id, config)])
      old == Stored(table, id, config)
  IN  /\ pending[c].pc # "read"
      /\ pending' = [pending EXCEPT ![c] = [pc |-> "read", id |-> id, thing |-> thing,
                                            old |-> old]]
      /\ call' = Call("get", id, Returned(old), <<request>>)
      /\ UNCHANGED <<config, table, arg, batch, docClient>>

\* repo.update with the object read again at the time of the write
UpdateWrite_ReadsAgain(c) ==
  LET p == pending[c]
      updated == Updated(Stored(table, p.id, config), p.thing)
      request == Request("put", [TableName |-> config.tableName,
                                 Item |-> formatForDDB(updated, config)])
  IN  /\ p.pc = "read"
      /\ Cardinality(StorePut(table, request.params)) <= MaxItems
      /\ table' = StorePut(table, request.params)
      /\ pending' = [pending EXCEPT ![c] = [pc |-> "done", old |-> p.old,
                                            result |-> Returned(updated)]]
      /\ call' = Call("update", [id |-> p.id, thing |-> p.thing], Returned(updated),
                      <<request>>)
      /\ UNCHANGED <<config, arg, batch, docClient>>

\* repo.update after its await: repo.overwrite({ ...old, ...thing })
UpdateWrite(c) ==
  LET p == pending[c]
      updated == Updated(p.old, p.thing)
      request == Request("put", [TableName |-> config.tableName,
                                 Item |-> formatForDDB(updated, config)])
  IN  /\ p.pc = "read"
      /\ Cardinality(StorePut(table, request.params)) <= MaxItems
      /\ table' = StorePut(table, request.params)
      /\ pending' = [pending EXCEPT ![c] = [pc |-> "done", old |-> p.old,
                                            result |-> Returned(updated)]]
      /\ call' = Call("update", [id |-> p.id, thing |-> p.thing], Returned(updated),
                      <<request>>)
      /\ UNCHANGED <<config, arg, batch, docClient>>

\* repo.query without the check of the index: a query that resolves to no
\* index is executed on the primary index
Query_NoIndexCheck(where) ==
  LET found == findIndexForQuery(where, config)
  IN  /\ call' =
           IF found.kind = "throw" THEN Call("query", where, found, <<>>)
           ELSE LET index == IF found.value = Null THEN config.primaryIndex ELSE found.value
                    request == Request("query", getQueryArgs(where, index, config))
                    res == StoreQuery(table, request.params, config)
                IN  Call("query", where, Returned(QueryResult(where, res)), <<request>>)
      /\ UNCHANGED <<config, table, arg, pending, batch, docClient>>

\* repo.query(where): findIndexForQuery, then executeQuery on the index found
Query(where) ==
  LET found == findIndexForQuery(where, config)
  IN  /\ call' =
           IF found.kind = "throw" THEN Call("query", where, found, <<>>)
           ELSE IF found.value = Null
                THEN Call("query", where, Thrown(NoIndexMessage), <<>>)
           ELSE LET request == Request("query", getQueryArgs(where, found.value, config))
                    res == StoreQuery(table, request.params, config)
                IN  Call("query", where, Returned(QueryResult(where, res)), <<request>>)
      /\ UNCHANGED <<config, table, arg, pending, batch, docClient>>

\* repo.executeQuery(where, index), as repo.queries[tag](where) calls it;
\* the caller keeps the first where clause and the results of the pages it
\* has read: a where clause without cursor starts over
ExecuteQuery(where, index) ==
  LET request == Request("query", getQueryArgs(where, index, config))
      res == StoreQuery(table, request.params, config)
      result == QueryResult(where, res)
      first == ~Has(where, "cursor")
  IN  /\ call' = Call("executeQuery", [where |-> where, index |-> index],
                      Returned(result), <<request>>)
      /\ arg' = [ kind |-> "pages",
                  where |-> IF first THEN where ELSE arg.where,
                  index |-> index,
                  seen |-> (IF first THEN <<>> ELSE arg.seen) \o result.results ]
      /\ UNCHANGED <<config, table, pending, batch, docClient>>

\* repo.queryOne(argsIn): repo.query with limit 1, then the first result or
\* null
QueryOne(argsIn) ==
  LET args == Extend(argsIn, [limit |-> 1])
      found == findIndexForQuery(args, config)
  IN  /\ call' =
           IF found.kind = "throw" THEN Call("queryOne", argsIn, found, <<>>)
           ELSE IF found.value = Null
                THEN Call("queryOne", argsIn, Thrown(NoIndexMessage), <<>>)
           ELSE LET request == Request("query", getQueryArgs(args, found.value, config))
                    res == QueryResult(args, StoreQuery(table, request.params, config))
                IN  Call("queryOne", argsIn,
                         Returned(IF Len(res.results) > 0 THEN res.results[1] ELSE Null),
                         <<request>>)
      /\ UNCHANGED <<config, table, arg, pending, batch, docClient>>

\* getRepository(args): the repository has the directory getConfig returns
GetRepository(argsIn) ==
  LET outcome == getConfigOutcome(argsIn)
  IN  /\ call' = Call("getRepository", argsIn, outcome, <<>>)
      /\ config' = IF outcome.kind = "return" THEN outcome.value ELSE config
      /\ UNCHANGED <<table, arg, pending, batch, docClient>>

\* WORKAROUND_updateAWSConfig(ops, docClientOptions): _docClient becomes a
\* new client
WORKAROUND_updateAWSConfig ==
  /\ docClient < MaxClients
  /\ docClient' = docClient + 1
  /\ UNCHANGED <<config, table, arg, call, pending, batch>>

\* repo.findIndexForQuery(where)
FindIndexForQuery(where) ==
  /\ call' = Call("findIndexForQuery", where, findIndexForQuery(where, config), <<>>)
  /\ UNCHANGED <<config, table, arg, pending, batch, docClient>>

\* repo.formatForDDB(thing)
FormatForDDB(thing) ==
  /\ call' = Call("formatForDDB", thing, Returned(formatForDDB(thing, config)), <<>>)
  /\ UNCHANGED <<config, table, arg, pending, batch, docClient>>

\* getKey(id, i, ...) for an index of the directory
GetKey(id, i) ==
  /\ call' = Call("getKey", [id |-> id, index |-> i],
                  Returned(getKey(id, i, config.compositeKeySeparator,
                                  config.shouldPadNumbersInIndexes)),
                  <<>>)
  /\ UNCHANGED <<config, table, arg, pending, batch, docClient>>

\* repo.getSortKeyAndHashKeyForQuery(where, index)
GetSortKeyAndHashKeyForQuery(where, i) ==
  /\ call' = Call("getSortKeyAndHashKeyForQuery", [where |-> where, index |-> i],
                  Returned(getSortKeyAndHashKeyForQuery(where, i, config)), <<>>)
  /\ UNCHANGED <<config, table, arg, pending, batch, docClient>>

\* mapper.computeIndexFields(src, index)
ComputeIndexFields(src, index) ==
  /\ call' = Call("computeIndexFields", [src |-> src, index |-> index],
                  Returned(computeIndexFields(src, index)), <<>>)
  /\ UNCHANGED <<config, table, arg, pending, batch, docClient>>

\* getKey(a, i, ...) and getKey(b, i, ...) for two objects and one index
GetKeys(a, b, i) ==
  /\ call' = Call("getKeys", [a |-> a, b |-> b, index |-> i],
                  Returned(<<getKey(a, i, config.compositeKeySeparator,
                                    config.shouldPadNumbersInIndexes),
                             getKey(b, i, config.compositeKeySeparator,
                                    config.shouldPadNumbersInIndexes)>>),
                  <<>>)
  /\ UNCHANGED <<config, table, arg, pending, batch, docClient>>

\* dynamoProperty(key, a, ...) and dynamoProperty(key, b, ...) of two numbers
DynamoProperty(key, a, b) ==
  /\ call' = Call("dynamoProperty", [key |-> key, a |-> a, b |-> b],
                  Returned(<<dynamoProperty(key, Num(a), config.shouldPadNumbersInIndexes),
                             dynamoProperty(key, Num(b), config.shouldPadNumbersInIndexes)>>),
                  <<>>)
  /\ UNCHANGED <<config, table, arg, pending, batch, docClient>>

(***************************************************************************)
(* Hooks: the repository invokes on.get, on.put, on.delete and             *)
(* on.dangerouslyUpdate after the store call of the operation has          *)
(* completed                                                               *)
(***************************************************************************)
Hooks == {"get", "put", "delete", "dangerouslyUpdate"}

\* the calls each hook has received, as jest.fn() records them
NoHookCalls == [h \in Hooks |-> <<>>]

\* the number of hook invocations so far
HookCalls(on) == Len(on["get"]) + Len(on["put"]) + Len(on["delete"]) + Len(on["dangerouslyUpdate"])

\* what a hook may return; the repository does not look at it
HookReturns == {Undefined, Str("changed")}

\* the request a hook is shown: the table and the key of the item
HookRequest(id, cfg) == [TableName |-> cfg.tableName, Key |-> repoGetKey(id, cfg)]

\* the item a key names, or Null
ItemAt(items, key) ==
  LET res == StoreGet(items, [Key |-> key])
  IN  IF Has(res, "Item") THEN res.Item ELSE Null

\* the store call of an operation: the table after it and what it
\* resolves to, or that it is rejected; dangerouslyUpdate is one update
\* request with the condition that the item exists (upsert: false)
StoreCall(op, input, items, cfg) ==
  LET key == repoGetKey(input[1], cfg)
      item == ItemAt(items, key)
  IN  CASE op = "put" ->
             [ table |-> StorePut(items, [Item |-> formatForDDB(input[1], cfg)]),
               resolved |-> TRUE, result |-> input[1] ]
        [] op = "get" ->
             [ table |-> items, resolved |-> TRUE,
               result |-> IF item = Null THEN Null ELSE getDataFromDocument(item) ]
        [] op = "delete" ->
             [ table |-> StoreDelete(items, [Key |-> key]),
               resolved |-> TRUE, result |-> TRUE ]
        [] op = "dangerouslyUpdate" ->
             IF item = Null
             THEN [ table |-> items, resolved |-> FALSE, result |-> Null ]
             ELSE LET updated == Extend(getDataFromDocument(item), input[2])
                  IN  [ table |-> StorePut(StoreDelete(items, [Key |-> key]),
                                           [Item |-> formatForDDB(updated, cfg)]),
                        resolved |-> TRUE, result |-> updated ]

\* the number of calls the callers have made
CallsMade == LET n(c) == IF Has(pending[c], "made") THEN pending[c].made ELSE 0
             IN  n("a") + n("b")

\* a caller calls get, put, delete or dangerouslyUpdate; the store performs
\* the request and its response is on the way
HookedSend(c, op, input) ==
  LET out == StoreCall(op, input, table, config)
      made == IF Has(pending[c], "made") THEN pending[c].made ELSE 0
      returned == IF Has(pending[c], "returned") THEN pending[c].returned ELSE 0
  IN  /\ pending[c].pc # "sent"
      /\ CallsMade < MaxCalls
      /\ Cardinality(out.table) <= MaxItems
      /\ table' = out.table
      /\ pending' = [pending EXCEPT ![c] =
                       [ pc |-> "sent", op |-> op, input |-> input,
                         resolved |-> out.resolved, result |-> out.result,
                         request |-> HookRequest(input[1], config), made |-> made + 1,
                         returned |-> returned ]]
      /\ UNCHANGED <<config, arg, call, batch, docClient>>

\* HookedComplete with the hook's return value given to the caller
HookedComplete_ReturnsHookValue(c, returns) ==
  LET p == pending[c]
      invocation == [ input |-> p.input, result |-> p.result, request |-> p.request,
                      order |-> HookCalls(config.on) + 1, returns |-> returns ]
  IN  /\ p.pc = "sent"
      /\ config' = IF p.resolved
                   THEN [config EXCEPT !.on[p.op] = Append(@, invocation)]
                   ELSE config
      /\ call' = Call(p.op, p.input,
                      IF ~p.resolved THEN Thrown("The conditional request failed")
                      ELSE IF returns = Undefined THEN Returned(p.result)
                      ELSE Returned(returns),
                      <<p.request>>)
      /\ pending' = [pending EXCEPT ![c] =
                       [ pc |-> "returned", made |-> p.made,
                         returned |-> IF p.resolved THEN p.returned + 1 ELSE p.returned ]]
      /\ UNCHANGED <<table, arg, batch, docClient>>

\* the response arrives: the hook of the operation is invoked with the
\* call's arguments, the resolved result and the request, and the operation
\* returns the result; a rejected store call invokes no hook and throws
HookedComplete(c, returns) ==
  LET p == pending[c]
      invocation == [ input |-> p.input, result |-> p.result, request |-> p.request,
                      order |-> HookCalls(config.on) + 1, returns |-> returns ]
  IN  /\ p.pc = "sent"
      /\ config' = IF p.resolved
                   THEN [config EXCEPT !.on[p.op] = Append(@, invocation)]
                   ELSE config
      /\ call' = Call(p.op, p.input,
                      IF p.resolved THEN Returned(p.result)
                      ELSE Thrown("The conditional request failed"),
                      <<p.request>>)
      /\ pending' = [pending EXCEPT ![c] =
                       [ pc |-> "returned", made |-> p.made,
                         returned |-> IF p.resolved THEN p.returned + 1 ELSE p.returned ]]
      /\ UNCHANGED <<table, arg, batch, docClient>>

(***************************************************************************)
(* Inputs: three repositories and their objects                            *)
(***************************************************************************)
\* the simple repository of the README
UserArgs == [objectName |-> "User", hashKeyFields |-> <<"id">>]

\* the purchase repository of the README, with two local secondary
\* queries declared on slot 1
PurchaseArgs ==
  [ objectName |-> "Purchase",
    hashKeyFields |-> <<"userId">>,
    sortKeyFields |-> <<"itemId", "id">>,
    queries |-> <<
      <<"getMyPurchases", [isPrimary |-> TRUE]>>,
      <<"getPurchasersOfItem",
        [which |-> 0, hashKeyFields |-> <<"itemId">>,
         sortKeyFields |-> <<"purchaseDate", "userId">>]>>,
      <<"latestPurchases",
        [which |-> 0, sortKeyFields |-> <<"purchaseDate", "itemId">>]>>,
      <<"purchasesByLocation",
        [which |-> 1, sortKeyFields |-> <<"country", "itemId", "purchaseDate">>]>>,
      <<"latestPurchasesByCountry",
        [which |-> 1, sortKeyFields |-> <<"country", "purchaseDate">>]>> >> ]

\* a repository with a custom global secondary index, its own separator
\* and number padding switched off
AccountArgs ==
  [ objectName |-> "Account",
    hashKeyFields |-> <<"id">>,
    compositeKeySeparator |-> "|",
    shouldPadNumbersInIndexes |-> FALSE,
    queries |-> <<
      <<"byEmail", [hashKeyAttributeName |-> "email", sortKeyAttributeName |-> "joined"]>>,
      <<"byAge", [which |-> 2, sortKeyFields |-> <<"age">>]>> >> ]

Configs == {getConfig(UserArgs), getConfig(PurchaseArgs), getConfig(AccountArgs)}

\* the complete objects of each repository
FullObjects(objectName) ==
  CASE objectName = "User" ->
         { [id |-> Str("1"), name |-> Str("jim")],
           [id |-> Str("2"), name |-> Str("pam")] }
    [] objectName = "Purchase" ->
         { [userId |-> Str("1208493"), itemId |-> Str("awesomecouch"), id |-> Str("1234"),
            purchaseDate |-> Num(1572), country |-> Str("usa")],
           [userId |-> Str("creed"), itemId |-> Str("scuba-tank"), id |-> Str("1"),
            purchaseDate |-> Num(7), country |-> Str("usa")] }
    [] objectName = "Account" ->
         { [id |-> Str("a1"), email |-> Str("jim"), joined |-> Str("2020"), age |-> Num(30)],
           [id |-> Str("a2"), email |-> Str("pam"), joined |-> Str("2021"), age |-> Num(-1)] }

\* the object with only the properties of a set
Restrict(obj, S) == [k \in (DOMAIN obj) \cap S |-> obj[k]]

\* the field names of a repository's objects
FieldsOf(cfg) == UNION {DOMAIN o : o \in FullObjects(cfg.objectName)}

\* every object with some of the properties of a complete object
Things(cfg) ==
  {Restrict(o, S) : o \in FullObjects(cfg.objectName), S \in SUBSET FieldsOf(cfg)}

\* every where clause over those objects: with or without sortBy, with or
\* without index, the index a tag of the directory or not
Wheres(cfg) ==
  { Extend(Extend([args |-> a], sb), ix) :
      a \in Things(cfg),
      sb \in {EmptyObject} \cup {[sortBy |-> f] : f \in FieldsOf(cfg)},
      ix \in {EmptyObject} \cup {[index |-> t] : t \in (DOMAIN cfg.indexesByTag) \cup {"nope"}} }

\* the fields of the table key
KeyFields(cfg) == Range(cfg.primaryIndex.hashKeyFields) \cup Range(cfg.primaryIndex.sortKeyFields)

\* a complete object without one of its properties, or whole
LackingOne(o, among) ==
  {o} \cup {Restrict(o, (DOMAIN o) \ {f}) : f \in among}

\* the objects a repository run writes: complete, or lacking one property
PutThings(cfg) ==
  UNION {LackingOne(o, DOMAIN o) : o \in FullObjects(cfg.objectName)}

\* the ids a repository run reads and deletes: the table key fields of an
\* object, or all but one of them
Ids(cfg) ==
  UNION {LackingOne(Restrict(o, KeyFields(cfg)), KeyFields(cfg)) :
           o \in FullObjects(cfg.objectName)}

\* the where clauses a repository run queries with: a prefix of the table
\* key fields, no sortBy; without index, or with the tag of the last
\* declared index, or with a tag that is not declared
QueryWheres(cfg) ==
  LET keySeq == cfg.primaryIndex.hashKeyFields \o cfg.primaryIndex.sortKeyFields
  IN  { Extend([args |-> Restrict(o, Range(SubSeq(keySeq, 1, n)))], ix) :
          o \in FullObjects(cfg.objectName),
          n \in 0..Len(keySeq),
          ix \in {EmptyObject, [index |-> cfg.indexes[Len(cfg.indexes)].tag],
                  [index |-> "nope"]} }

\* the custom indexes of a directory
CustomIndexes(cfg) == {i \in Range(cfg.indexes) : i.isCustomIndex}

\* the same attribute pairs as indexes of a Mapper, with and without sort key
MapperIndexes(cfg) ==
  UNION { { [partitionKey |-> i.hashKeyAttribute, sortKey |-> i.sortKeyAttribute],
            [partitionKey |-> i.hashKeyAttribute] } : i \in CustomIndexes(cfg) }

\* repositories that share the table: two whose local secondary query has
\* the same name, and two whose object and query names hold the character
\* that joins them in the hash key descriptor of a global secondary index
SharedArgs ==
  { [ objectName |-> "User", hashKeyFields |-> <<"id">>,
      queries |-> << <<"byName", [which |-> 0, sortKeyFields |-> <<"name">>]>>,
                     <<"byNameAndId", [which |-> 1, sortKeyFields |-> <<"name", "id">>]>> >> ],
    [ objectName |-> "Pet", hashKeyFields |-> <<"id">>,
      queries |-> << <<"byName", [which |-> 0, sortKeyFields |-> <<"name">>]>> >> ],
    [ objectName |-> "A", hashKeyFields |-> <<"id">>,
      queries |-> << <<"c-c", [which |-> 0, hashKeyFields |-> <<"name">>,
                               sortKeyFields |-> <<"id">>]>> >> ],
    [ objectName |-> "A-c", hashKeyFields |-> <<"id">>,
      queries |-> << <<"c", [which |-> 0, hashKeyFields |-> <<"name">>,
                             sortKeyFields |-> <<"id">>]>> >> ] }

\* the objects of those repositories
SharedObjects ==
  { [id |-> Str("1"), name |-> Str("jim")], [id |-> Str("2"), name |-> Str("jim")] }

\* the where clauses of those repositories: by id, or by name on a declared
\* query
SharedWheres(cfg) ==
  { [args |-> Restrict(o, {"id"})] : o \in SharedObjects }
    \cup { [args |-> Restrict(o, {"name"}), index |-> cfg.indexes[n].tag] :
             o \in SharedObjects, n \in 2..Len(cfg.indexes) }

\* other values for a property: none, the same text as a string, the text
\* a missing value is written as, another text, a text that holds the
\* separator, and a number
OtherValues(v, cfg) ==
  { Undefined, Str(String(v)), Str("undefined"), Str("x"),
    Str("x" \o cfg.compositeKeySeparator \o "y"), Num(7) }

\* an object with one property replaced by a value, or removed
With(o, f, v) ==
  IF v = Undefined THEN Restrict(o, (DOMAIN o) \ {f})
  ELSE Extend(o, Single(f, v))

\* a complete object, and the objects that differ from it in one or two
\* properties
Variants(o, cfg) ==
  {o} \cup UNION { { With(With(o, f, v), g, w) :
                       v \in OtherValues(o[f], cfg), w \in OtherValues(o[g], cfg) } :
                     f \in DOMAIN o, g \in DOMAIN o }

\* the pairs of objects whose keys are compared
KeyPairs(cfg) ==
  UNION { { [kind |-> "pair", a |-> a, b |-> b] :
              a \in {o, With(o, CHOOSE f \in KeyFields(cfg) : TRUE, Undefined)},
              b \in Variants(o, cfg) } :
          o \in FullObjects(cfg.objectName) }

\* the calls on a repository with hooks: on one id, as the hooks test makes
\* them, with two names
HookedInputs(op) ==
  LET id == [id |-> Str("1")]
  IN  CASE op = "put" -> { <<[id |-> Str("1"), name |-> Str("meow")]>>,
                           <<[id |-> Str("1"), name |-> Str("jim")]>> }
        [] op = "dangerouslyUpdate" ->
             { <<id, [id |-> Str("1"), name |-> Str("yeehaw")], [upsert |-> FALSE]>> }
        [] OTHER -> { <<id>> }

\* the where clauses that ask for a stored object through an index: the
\* object's values for the hash fields and for the first k sort fields,
\* the index named by its tag (the primary index has none)
StoredWheres(cfg) ==
  UNION { { Extend([args |-> Restrict(o, Range(i.hashKeyFields)
                                           \cup Range(SubSeq(i.sortKeyFields, 1, k)))],
                   Spread(i.tag # "", [index |-> i.tag])) :
              k \in 0..Len(i.sortKeyFields) } :
          o \in FullObjects(cfg.objectName), i \in NonCustomIndexes(cfg) }

\* purchases of one user and of one item, which share the partitions of
\* the indexes
PageObjects ==
  { [userId |-> Str("creed"), itemId |-> Str(p[1]), id |-> Str(p[2]),
     purchaseDate |-> Num(p[3]), country |-> Str("usa")] :
      p \in { <<"scuba-tank", "1", 7>>, <<"scuba-tank", "2", 3>>, <<"desk", "3", 7>> } }

\* the first where clause of a paged query on an index: the hash fields of
\* a purchase, a limit or none, ascending or the default direction
PageWheres(i) ==
  { Extend(Extend([args |-> Restrict(o, Range(i.hashKeyFields))], l), d) :
      o \in PageObjects,
      l \in {EmptyObject, [limit |-> 1], [limit |-> 2]},
      d \in {EmptyObject, [sort |-> "asc"]} }

\* where clauses with and without limit and sort: for the purchases of a
\* user, or with no arguments
LimitWheres ==
  { Extend(Extend([args |-> a], l), d) :
      a \in {EmptyObject, [userId |-> Str("creed")]},
      l \in {EmptyObject, [limit |-> 0], [limit |-> 1], [limit |-> 2]},
      d \in {EmptyObject, [sort |-> "asc"], [sort |-> "desc"]} }

\* the ids an update names: the table key fields of a complete object
UpdateIds(cfg) == {Restrict(o, KeyFields(cfg)) : o \in FullObjects(cfg.objectName)}

\* the changes an update makes: one property of a complete object that is
\* not a table key field
UpdateThings(cfg) ==
  {Restrict(o, {f}) : o \in FullObjects(cfg.objectName), f \in FieldsOf(cfg) \ KeyFields(cfg)}

\* the changes of an update that may also name a table key field: one
\* property of a complete object
UpdateChanges(cfg) ==
  {Restrict(o, {f}) : o \in FullObjects(cfg.objectName), f \in FieldsOf(cfg)}

\* the objects put under an id: the complete object of that id, as it is
\* or with one of the changes
PutsOf(id, cfg) ==
  {Extend(o, t) : o \in {x \in FullObjects(cfg.objectName) : Restrict(x, KeyFields(cfg)) = id},
                  t \in {EmptyObject} \cup UpdateThings(cfg)}

\* query declarations: primary, local secondary, global secondary, custom
\* global secondary, primary together with secondary key fields, global
\* secondary without hash key fields, and declarations with no key fields
\* and no attribute names
Declarations ==
  { [isPrimary |-> TRUE],
    [isPrimary |-> TRUE, which |-> 0, sortKeyFields |-> <<"name">>],
    [isPrimary |-> TRUE, which |-> 0, hashKeyFields |-> <<"name">>, sortKeyFields |-> <<"id">>],
    [which |-> 0, sortKeyFields |-> <<"name">>],
    [which |-> 0, hashKeyFields |-> <<"name">>, sortKeyFields |-> <<"id">>],
    [which |-> 0, hashKeyFields |-> <<>>, sortKeyFields |-> <<"id">>],
    [hashKeyAttributeName |-> "email", sortKeyAttributeName |-> "joined"],
    [which |-> 0],
    [isPrimary |-> FALSE] }

\* the names of the queries: the keys of args.queries
QueryNames == {"", "byName", "other"}

\* args.queries: no query, one query, or two queries of different names,
\* in the order of the keys
QueryLists ==
  {<<>>}
    \cup {<<<<n, d>>>> : n \in QueryNames, d \in Declarations}
    \cup {<<<<n[1], d1>>, <<n[2], d2>>>> :
            n \in {x \in QueryNames \X QueryNames : x[1] # x[2]},
            d1 \in Declarations, d2 \in Declarations}

\* the arguments of getRepository: the simple repository, with or without
\* hash key fields, with each list of queries
ConfigArgs ==
  {Extend([objectName |-> "User", hashKeyFields |-> h], Spread(q # <<>>, [queries |-> q])) :
     h \in {<<"id">>, <<>>}, q \in QueryLists}

(***************************************************************************)
(* The batch planner: batch.get / batch.put / batch.delete operations,     *)
(* batchGet and batchWrite                                                 *)
(***************************************************************************)
\* the store's limit of items in one batch read
ReadLimit == 2
\* the store's limit of items in one batch write
WriteLimit == 1
\* the number of times a chunk is sent before the call gives up
MaxAttempts == 2

\* repo.batch.get(id): the operation without a projection
batchGetOperation(id, cfg) ==
  [verb |-> "get", TableName |-> cfg.tableName, Key |-> repoGetKey(id, cfg)]

\* repo.batch.get(id, {fieldsToProject})
batchGetProjected(id, fields, cfg) ==
  Extend(batchGetOperation(id, cfg), [fieldsToProject |-> fields])

\* repo.batch.put(thing)
batchPutOperation(thing, cfg) ==
  [verb |-> "put", TableName |-> cfg.tableName, Key |-> repoGetKey(thing, cfg),
   Item |-> formatForDDB(thing, cfg)]

\* repo.batch.delete(id)
batchDeleteOperation(id, cfg) ==
  [verb |-> "delete", TableName |-> cfg.tableName, Key |-> repoGetKey(id, cfg)]

\* the identity of an operation: (table, physical key)
Identity(op) == <<op.TableName, op.Key>>

\* the positions of the operations of one identity
Occurrences(ops, id) == {n \in 1..Len(ops) : Identity(ops[n]) = id}

\* the projection of the first occurrence alone
MergedProjection_FirstOnly(ops, id) ==
  LET first == CHOOSE m \in Occurrences(ops, id) : \A k \in Occurrences(ops, id) : m <= k
  IN  IF Has(ops[first], "fieldsToProject")
      THEN [fieldsToProject |-> ops[first].fieldsToProject]
      ELSE EmptyObject

\* the projection of the operation dispatched for an identity: the union
\* of the projections asked for, and none when an occurrence asks for the
\* whole item
MergedProjection(ops, id) ==
  IF \A n \in Occurrences(ops, id) : Has(ops[n], "fieldsToProject")
  THEN [fieldsToProject |-> UNION {ops[n].fieldsToProject : n \in Occurrences(ops, id)}]
  ELSE EmptyObject

\* the one operation dispatched for the identity of ops[n]: a get with the
\* merged projection, and for writes the last occurrence
Merged(ops, n) ==
  LET id == Identity(ops[n])
      last == CHOOSE m \in Occurrences(ops, id) : \A k \in Occurrences(ops, id) : k <= m
  IN  IF ops[n].verb = "get"
      THEN Extend(Restrict(ops[n], {"verb", "TableName", "Key"}), MergedProjection(ops, id))
      ELSE ops[last]

\* deduplication without the merge: every occurrence is dispatched
Unique_KeepsDuplicates(ops) == ops

\* deduplication: one operation for each identity, in the order of the
\* first occurrences
Unique(ops) ==
  LET RECURSIVE Loop(_, _)
      Loop(n, acc) ==
        IF n > Len(ops) THEN acc
        ELSE IF \E m \in 1..(n-1) : Identity(ops[m]) = Identity(ops[n])
             THEN Loop(n + 1, acc)
             ELSE Loop(n + 1, Append(acc, Merged(ops, n)))
  IN  Loop(1, <<>>)

\* a chunk that has not been sent: the operations to send, the number of
\* requests made, the last request and the unprocessed operations of the
\* last response
NewChunk(todo) == [todo |-> todo, attempts |-> 0, sent |-> <<>>, unprocessed |-> {}]

\* chunking: consecutive pieces of at most limit operations
Chunks(unique, limit) ==
  LET RECURSIVE Loop(_, _)
      Loop(rest, acc) ==
        IF rest = <<>> THEN acc
        ELSE Loop(SubSeq(rest, limit + 1, Len(rest)),
                  Append(acc, NewChunk(Slice0(rest, limit))))
  IN  Loop(unique, <<>>)

\* the missing marker of a get, the acknowledgement of a put or a delete
Missing == Undefined
Acknowledged == [acknowledged |-> TRUE]

\* a fetched item under a projection: the projected fields and the key
Projected(item, op) ==
  IF Has(op, "fieldsToProject")
  THEN Restrict(item, op.fieldsToProject \cup {"__hashKey", "__sortKey"})
  ELSE item

\* the store's answer for one processed operation of a batch read
BatchGetItem(items, op) ==
  LET res == StoreGet(items, [TableName |-> op.TableName, Key |-> op.Key])
  IN  IF Has(res, "Item") THEN Projected(res.Item, op) ELSE Missing

\* the store after the processed operations of a batch write
BatchWriteItems(items, processed) ==
  LET deleted == {x \in items :
                    \A op \in processed : PrimaryKeyOf(x) # PrimaryKeyOf(op.Key)}
  IN  deleted \cup {op.Item : op \in {o \in processed : o.verb = "put"}}

\* the failure of a batch call whose retries are used up: it names the
\* identities that are still unprocessed
BatchIncomplete(unresolved) ==
  [kind |-> "throw", message |-> "BatchIncomplete", keys |-> unresolved]

\* resubmission of the whole chunk, processed operations included
Resubmitted_WholeChunk(todo, unprocessed) == todo

\* the operations of a chunk to send again: the unprocessed ones, in order
Resubmitted(todo, unprocessed) == SelectSeq(todo, LAMBDA op : op \in unprocessed)

\* reassembly that leaves out the missing items
Reassembled_SkipsMissing(ops, results) ==
  SelectSeq([n \in 1..Len(ops) |-> results[Identity(ops[n])]], LAMBDA r : r # Missing)

\* the output list: for each occurrence, the result of its identity
Reassembled(ops, results) == [n \in 1..Len(ops) |-> results[Identity(ops[n])]]

\* the identities that the chunks have still to resolve
Unresolved(chunks) ==
  UNION {{Identity(op) : op \in Range(chunks[i].todo)} : i \in 1..Len(chunks)}

\* batchGet(ops) / batchWrite(ops) up to the first dispatch: deduplication
\* and chunking
BatchStart(kind, ops) ==
  /\ batch.phase = "idle"
  /\ batch' = [phase |-> "running", kind |-> kind, ops |-> ops,
               chunks |-> Chunks(Unique(ops), IF kind = "get" THEN ReadLimit ELSE WriteLimit),
               results |-> EmptyObject]
  /\ UNCHANGED <<config, table, arg, call, pending, docClient>>

\* one request for chunk i and the store's response, which leaves any
\* subset of the operations unprocessed
Dispatch(i) ==
  LET c == batch.chunks[i]
  IN  /\ batch.phase = "running"
      /\ c.todo # <<>>
      /\ c.attempts < MaxAttempts
      /\ \E unprocessed \in SUBSET Range(c.todo) :
           LET processed == Range(c.todo) \ unprocessed
               answers ==
                 [id \in {Identity(op) : op \in processed} |->
                    IF batch.kind = "get"
                    THEN BatchGetItem(table, CHOOSE op \in processed : Identity(op) = id)
                    ELSE Acknowledged]
               written == IF batch.kind = "get" THEN table
                          ELSE BatchWriteItems(table, processed)
           IN  /\ Cardinality(written) <= MaxItems
               /\ table' = written
               /\ batch' = [batch EXCEPT
                              !.chunks[i] = [todo |-> Resubmitted(c.todo, unprocessed),
                                             attempts |-> c.attempts + 1,
                                             sent |-> c.todo,
                                             unprocessed |-> unprocessed],
                              !.results = Extend(batch.results, answers)]
      /\ UNCHANGED <<config, arg, call, pending, docClient>>

\* the batch call resolves when every chunk is resolved or has used up its
\* attempts
BatchFinish ==
  LET unresolved == Unresolved(batch.chunks)
      result == IF unresolved = {}
                THEN Returned(Reassembled(batch.ops, batch.results))
                ELSE BatchIncomplete(unresolved)
  IN  /\ batch.phase = "running"
      /\ \A i \in 1..Len(batch.chunks) :
           batch.chunks[i].todo = <<>> \/ batch.chunks[i].attempts = MaxAttempts
      /\ call' = Call(IF batch.kind = "get" THEN "batchGet" ELSE "batchWrite",
                      batch.ops, result,
                      [i \in 1..Len(batch.chunks) |->
                         Request(batch.kind, batch.chunks[i].sent)])
      /\ batch' = NoBatch
      /\ UNCHANGED <<config, table, arg, pending, docClient>>

\* an id that no object has
AbsentId(cfg) == [f \in KeyFields(cfg) |-> Str("5")]

\* the id that is also asked for with a projection
ProjectedId(cfg) == CHOOSE id \in UpdateIds(cfg) : TRUE

\* the operations of the batch reads: each id and the id that no object
\* has, whole, and one id with one field projected
GetOperations(cfg) ==
  {batchGetOperation(id, cfg) : id \in UpdateIds(cfg) \cup {AbsentId(cfg)}}
    \cup {batchGetProjected(ProjectedId(cfg), {f}, cfg) : f \in FieldsOf(cfg)}

\* the operations of the batch writes: a put of each complete object and a
\* delete of each id
WriteOperations(cfg) ==
  {batchPutOperation(o, cfg) : o \in FullObjects(cfg.objectName)}
    \cup {batchDeleteOperation(id, cfg) : id \in UpdateIds(cfg)}

\* the input lists of at most MaxOps operations
OperationLists(choices) == UNION {[1..n -> choices] : n \in 0..MaxOps}

(***************************************************************************)
(* Specifications                                                          *)
(***************************************************************************)
NoCall == Call("none", EmptyObject, Returned(Null), <<>>)

\* a repository run: calls one after another on one table
Init ==
  /\ config \in Configs
  /\ table = {}
  /\ arg = NoArg
  /\ call = NoCall
  /\ pending = [c \in Callers |-> Idle]
  /\ batch = NoBatch
  /\ docClient = DefaultClient

Next ==
  \/ \E thing \in PutThings(config) : Put(thing)
  \/ \E id \in Ids(config) : Get(id)
  \/ \E id \in Ids(config) : Delete(id)
  \/ \E where \in QueryWheres(config) : Query(where)

Spec == Init /\ [][Next]_vars

\* calls on a single id, one after another: the id is drawn first
InitSequence ==
  /\ config \in Configs
  /\ table = {}
  /\ arg \in {[kind |-> "id", id |-> id] : id \in UpdateIds(config)}
  /\ call = NoCall
  /\ pending = [c \in Callers |-> Idle]
  /\ batch = NoBatch
  /\ docClient = DefaultClient

\* no update is between its read and its write
Sequential == \A c \in Callers : pending[c].pc # "read"

NextSequence ==
  \/ Sequential /\ \E thing \in PutsOf(arg.id, config) : Put(thing)
  \/ Sequential /\ \E thing \in UpdateThings(config) : UpdateRead("a", arg.id, thing)
  \/ UpdateWrite("a")
  \/ Sequential /\ Delete(arg.id)
  \/ Sequential /\ Get(arg.id)

SpecSequence == InitSequence /\ [][NextSequence]_vars

\* one caller: puts, deletes and updates of one id, the update with any
\* one property as its change, nothing between its read and its write
NextUpdate ==
  \/ Sequential /\ \E thing \in PutsOf(arg.id, config) : Put(thing)
  \/ Sequential /\ \E thing \in UpdateChanges(config) : UpdateRead("a", arg.id, thing)
  \/ UpdateWrite("a")
  \/ Sequential /\ Delete(arg.id)

SpecUpdate == InitSequence /\ [][NextUpdate]_vars

\* two callers on one table, each making one update: a write of one may
\* fall between the read and the write of the other
NextRace ==
  \/ \E thing \in FullObjects(config.objectName) : Put(thing)
  \/ \E c \in Callers, id \in UpdateIds(config), thing \in UpdateThings(config) :
       pending[c].pc = "idle" /\ UpdateRead(c, id, thing)
  \/ \E c \in Callers : UpdateWrite(c)

SpecRace == Init /\ [][NextRace]_vars

\* a batch call on the simple repository: the items are put first, then
\* one batch call is made
InitBatch ==
  /\ config = getConfig(UserArgs)
  /\ table = {}
  /\ arg = NoArg
  /\ call = NoCall
  /\ pending = [c \in Callers |-> Idle]
  /\ batch = NoBatch
  /\ docClient = DefaultClient

\* no batch call has been made
BeforeBatch == batch.phase = "idle" /\ call.op \in {"none", "put"}

NextBatch ==
  \/ BeforeBatch /\ \E thing \in FullObjects(config.objectName) : Put(thing)
  \/ BeforeBatch /\ \E ops \in OperationLists(GetOperations(config)) : BatchStart("get", ops)
  \/ BeforeBatch /\ \E ops \in OperationLists(WriteOperations(config)) : BatchStart("write", ops)
  \/ batch.phase = "running" /\ \E i \in 1..Len(batch.chunks) : Dispatch(i)
  \/ BatchFinish

SpecBatch == InitBatch /\ [][NextBatch]_vars

\* the store answers every request and every continuation of the call runs
SpecBatchFair ==
  /\ SpecBatch
  /\ WF_vars(batch.phase = "running" /\ \E i \in 1..Len(batch.chunks) : Dispatch(i))
  /\ WF_vars(BatchFinish)

\* constructions of a repository: the arguments are drawn first
InitConfig ==
  /\ config \in Configs
  /\ table = {}
  /\ arg \in {[kind |-> "args", args |-> a] : a \in ConfigArgs}
  /\ call = NoCall
  /\ pending = [c \in Callers |-> Idle]
  /\ batch = NoBatch
  /\ docClient = DefaultClient

NextConfig == arg.kind = "args" /\ call.op = "none" /\ GetRepository(arg.args)

SpecConfig == InitConfig /\ [][NextConfig]_vars

\* two repositories on one table: the caller gets a repository of either
\* kind and puts, queries and encodes keys with the one it got last
InitShared ==
  /\ arg \in {[kind |-> "repositories", first |-> a, second |-> b] :
               a \in SharedArgs, b \in SharedArgs}
  /\ arg.first.objectName # arg.second.objectName
  /\ config = getConfig(arg.first)
  /\ table = {}
  /\ call = NoCall
  /\ pending = [c \in Callers |-> Idle]
  /\ batch = NoBatch
  /\ docClient = DefaultClient

NextShared ==
  \/ \E a \in {arg.first, arg.second} : GetRepository(a)
  \/ \E thing \in SharedObjects : Put(thing)
  \/ \E where \in SharedWheres(config) : Query(where)
  \/ \E thing \in SharedObjects : \E i \in NonCustomIndexes(config) : GetKey(thing, i)

SpecShared == InitShared /\ [][NextShared]_vars

\* two objects are drawn, then their keys for one index are encoded
InitEncoding ==
  /\ config \in Configs
  /\ table = {}
  /\ arg \in KeyPairs(config)
  /\ call = NoCall
  /\ pending = [c \in Callers |-> Idle]
  /\ batch = NoBatch
  /\ docClient = DefaultClient

NextEncoding ==
  arg.kind = "pair" /\ \E i \in NonCustomIndexes(config) : GetKeys(arg.a, arg.b, i)

SpecEncoding == InitEncoding /\ [][NextEncoding]_vars

\* a repository configured with hooks, used by two callers
InitHooks ==
  /\ config = Extend(getConfig(UserArgs), [on |-> NoHookCalls])
  /\ table = {}
  /\ arg = NoArg
  /\ call = NoCall
  /\ pending = [c \in Callers |-> Idle]
  /\ batch = NoBatch
  /\ docClient = DefaultClient

NextHooks ==
  \/ \E c \in Callers : \E op \in Hooks : \E input \in HookedInputs(op) :
       HookedSend(c, op, input)
  \/ \E c \in Callers : \E returns \in HookReturns : HookedComplete(c, returns)

SpecHooks == InitHooks /\ [][NextHooks]_vars

\* a repository is constructed while _docClient is the first client, then
\* used while the process may replace the client
InitClient ==
  /\ config \in Configs
  /\ table = {}
  /\ arg = [kind |-> "repository", client |-> DefaultClient]
  /\ call = NoCall
  /\ pending = [c \in Callers |-> Idle]
  /\ batch = NoBatch
  /\ docClient = DefaultClient

NextClient ==
  \/ Next
  \/ WORKAROUND_updateAWSConfig

SpecClient == InitClient /\ [][NextClient]_vars

\* complete objects are put, then asked for through each index
NextStored ==
  \/ \E thing \in FullObjects(config.objectName) : Put(thing)
  \/ \E where \in StoredWheres(config) : Query(where)

SpecStored == Init /\ [][NextStored]_vars

\* purchases are put, then the table is left alone and read page by page
\* through the declared queries
InitPages ==
  /\ config = getConfig(PurchaseArgs)
  /\ table = {}
  /\ arg = NoArg
  /\ call = NoCall
  /\ pending = [c \in Callers |-> Idle]
  /\ batch = NoBatch
  /\ docClient = DefaultClient

NextPages ==
  \/ arg.kind = "none" /\ \E thing \in PageObjects : Put(thing)
  \/ \E i \in Range(config.indexes) : \E where \in PageWheres(i) : ExecuteQuery(where, i)
  \/ /\ call.op = "executeQuery"
     /\ Has(call.result.value, "nextPageArgs")
     /\ ExecuteQuery(call.result.value.nextPageArgs, call.input.index)

SpecPages == InitPages /\ [][NextPages]_vars

\* purchases are put and queried with limits and directions
NextLimits ==
  \/ \E thing \in PageObjects : Put(thing)
  \/ \E where \in LimitWheres : Query(where)
  \/ \E where \in LimitWheres : QueryOne(where)

SpecLimits == InitPages /\ [][NextLimits]_vars

\* single calls: the input is drawn first, then an operation is applied
InitCalls ==
  /\ config \in Configs
  /\ table = {}
  /\ arg \in {[kind |-> "where", where |-> w] : w \in Wheres(config)}
            \cup {[kind |-> "thing", thing |-> t] : t \in Things(config)}
            \cup {[kind |-> "numbers", a |-> a, b |-> b] : a \in 0..MaxNum, b \in 0..MaxNum}
  /\ call = NoCall
  /\ pending = [c \in Callers |-> Idle]
  /\ batch = NoBatch
  /\ docClient = DefaultClient

NextCalls ==
  \/ arg.kind = "where" /\ FindIndexForQuery(arg.where)
  \/ arg.kind = "where" /\ Query(arg.where)
  \/ arg.kind = "where" /\ \E i \in Range(config.indexes) :
                             GetSortKeyAndHashKeyForQuery(arg.where, i)
  \/ arg.kind = "thing" /\ FormatForDDB(arg.thing)
  \/ arg.kind = "thing" /\ \E i \in NonCustomIndexes(config) : GetKey(arg.thing, i)
  \/ arg.kind = "thing" /\ \E i \in MapperIndexes(config) : ComputeIndexFields(arg.thing, i)
  \/ arg.kind = "numbers" /\ \E key \in FieldsOf(config) : DynamoProperty(key, arg.a, arg.b)

SpecCalls == InitCalls /\ [][NextCalls]_vars

(***************************************************************************)
(* Properties of the query planner                                         *)
(***************************************************************************)
\* sub occurs in s
Contains(s, sub) ==
  \E n \in 1..(Len(s) - Len(sub) + 1) : SubSeq(s, n, n + Len(sub) - 1) = sub

\* the eligibility rules (a)-(d) for one index, stated on sets: the hash
\* fields are argument keys, the other k argument keys are the first k sort
\* fields, and sortBy, when given, is the sort field that follows them
Eligible(where, index) ==
  LET keys == DOMAIN where.args
      hash == Range(index.hashKeyFields)
      k == Cardinality(keys \ hash)
  IN  /\ hash \subseteq keys
      /\ k <= Len(index.sortKeyFields)
      /\ keys \ hash = {index.sortKeyFields[n] : n \in 1..k}
      /\ WhereSortBySet(where) =>
           /\ k < Len(index.sortKeyFields)
           /\ index.sortKeyFields[k + 1] = where.sortBy
           /\ \A n \in 1..k : index.sortKeyFields[n] # where.sortBy

\* the positions in config.indexes of the eligible indexes
EligiblePositions(where) ==
  {n \in 1..Len(config.indexes) : Eligible(where, config.indexes[n])}

\* the last call was findIndexForQuery and it returned an index
FoundIndex ==
  /\ call.op = "findIndexForQuery"
  /\ call.result.kind = "return"
  /\ call.result.value # Null

\* C1: whenever findIndexForQuery returns an index, with or without an
\* explicit where.index, every hash key field of that index is a key of
\* where.args
C1_HashFieldsAreArgumentKeys ==
  FoundIndex => Range(call.result.value.hashKeyFields) \subseteq DOMAIN call.input.args

\* C2: without where.index, findIndexForQuery returns the eligible index of
\* the lowest position in config.indexes, and null when none is eligible;
\* a query on exactly the primary hash fields without sortBy resolves to
\* the primary index
C2_FirstEligibleInDeclarationOrder ==
  (call.op = "findIndexForQuery" /\ ~WhereIndexSet(call.input)) =>
    LET positions == EligiblePositions(call.input)
    IN  /\ call.result.kind = "return"
        /\ IF positions = {} THEN call.result.value = Null
           ELSE \E n \in positions :
                  /\ \A m \in positions : n <= m
                  /\ call.result.value = config.indexes[n]
        /\ ( /\ DOMAIN call.input.args = Range(config.primaryIndex.hashKeyFields)
             /\ ~WhereSortBySet(call.input) )
           => call.result.value = config.primaryIndex

\* C2 happens: the primary index was returned for a query on its hash
\* fields although a secondary index with the same hash fields is eligible
C2_Witness ==
  /\ call.op = "findIndexForQuery"
  /\ ~WhereIndexSet(call.input)
  /\ DOMAIN call.input.args = Range(config.primaryIndex.hashKeyFields)
  /\ call.result = Returned(config.primaryIndex)
  /\ \E n \in EligiblePositions(call.input) :
       /\ config.indexes[n].type # "primaryIndex"
       /\ config.indexes[n].hashKeyFields = config.primaryIndex.hashKeyFields

\* C3: with where.index set, findIndexForQuery returns the index of that
\* tag whatever automatic resolution would give, and when no index has the
\* tag it throws a message that lists every tag and returns no index
C3_ExplicitIndexByTag ==
  (call.op = "findIndexForQuery" /\ WhereIndexSet(call.input)) =>
    LET tagged == {n \in 1..Len(config.indexes) : config.indexes[n].tag = call.input.index}
    IN  IF tagged # {}
        THEN /\ call.result.kind = "return"
             /\ \A n \in tagged : call.result.value = config.indexes[n]
        ELSE /\ call.result.kind = "throw"
             /\ \A n \in 1..Len(config.indexes) :
                  Contains(call.result.message, config.indexes[n].tag)
             /\ Contains(call.result.message, "\"" \o call.input.index \o "\"")

\* C3 happens: the tagged index was returned although automatic resolution
\* of the same arguments gives another answer
C3_Witness ==
  /\ call.op = "findIndexForQuery"
  /\ WhereIndexSet(call.input)
  /\ call.result.kind = "return"
  /\ call.result.value.tag = call.input.index
  /\ EligiblePositions(call.input) # {}
  /\ \A n \in EligiblePositions(call.input) : config.indexes[n] # call.result.value

\* the messages of the unknown-tag error for this directory
UnknownIndexMessages ==
  {UnknownIndexMessage([index |-> t], config) :
     t \in {"nope"} \cup {config.indexes[n].tag : n \in 1..Len(config.indexes)}}

\* C4: when automatic resolution finds no eligible index, findIndexForQuery
\* returns null, and query throws the no-index message, which is not an
\* unknown-tag message, and sends no request to the store
C4_NoMatchingIndex ==
  ( /\ call.op \in {"findIndexForQuery", "query"}
    /\ ~WhereIndexSet(call.input)
    /\ EligiblePositions(call.input) = {} ) =>
    /\ call.op = "findIndexForQuery" => call.result = Returned(Null)
    /\ call.op = "query" =>
         /\ call.result.kind = "throw"
         /\ call.result.message = NoIndexMessage
         /\ call.result.message \notin UnknownIndexMessages
         /\ ~Contains(call.result.message, "does not exist")
         /\ call.requests = <<>>

\* C4 happens: a query without where.index found no index and failed
C4_Witness ==
  /\ call.op = "query"
  /\ ~WhereIndexSet(call.input)
  /\ DOMAIN call.input.args # {}
  /\ EligiblePositions(call.input) = {}
  /\ call.result.kind = "throw"

(***************************************************************************)
(* Properties of the key codec                                             *)
(***************************************************************************)
RECURSIVE Zeros(_)
\* n characters '0'
Zeros(n) == IF n <= 0 THEN "" ELSE "0" \o Zeros(n - 1)

\* the text a field value has in a key: a string as it is, a number in
\* decimal, and a non-negative number under padding as 18 integer digits,
\* a point and 2 fraction digits
Rendered(v, pad) ==
  IF v.type = "string" THEN v.str
  ELSE IF pad /\ v.num >= 0
       THEN Zeros(18 - Len(ToString(v.num))) \o ToString(v.num) \o ".00"
       ELSE ToString(v.num)

RECURSIVE KeyText(_, _, _, _, _)
\* prefix, then separator and "<fieldName>-<value>" for each field in order
KeyText(prefix, fields, thing, sep, pad) ==
  IF fields = <<>> THEN prefix
  ELSE KeyText(prefix \o sep \o fields[1] \o "-" \o Rendered(thing[fields[1]], pad),
               Tail(fields), thing, sep, pad)

\* the longest leading run of fields that the object has
LeadingRun(fields, thing) ==
  LET n == CHOOSE m \in 0..Len(fields) :
             /\ \A j \in 1..m : fields[j] \in DOMAIN thing
             /\ m < Len(fields) => fields[m + 1] \notin DOMAIN thing
  IN  SubSeq(fields, 1, n)

\* the object with every value replaced by its String()
Stringified(thing) == [k \in DOMAIN thing |-> Str(String(thing[k]))]

\* the object has every hash key field of index i
HashFieldsPresent(i, thing) == Range(i.hashKeyFields) \subseteq DOMAIN thing

\* C5: encoding a key fails whenever a hash key field of the index is
\* absent: get, put, delete and query then throw and send no request
C5_MissingHashFieldFails ==
  /\ (call.op \in {"get", "delete"} /\ ~HashFieldsPresent(config.primaryIndex, call.input))
       => (call.result.kind = "throw" /\ call.requests = <<>>)
  /\ (call.op = "put" /\ \E i \in NonCustomIndexes(config) : ~HashFieldsPresent(i, call.input))
       => (call.result.kind = "throw" /\ call.requests = <<>>)
  /\ (call.op = "query" /\ call.requests # <<>>)
       => HashFieldsPresent(findIndexForQuery(call.input, config).value, call.input.args)

\* C6: the encoded sort key is the descriptor followed by exactly the
\* longest leading run of sort key fields that are present, both in the key
\* of get, put and delete (getKey) and in the key of a query
C6_SortKeyIsLeadingRun ==
  /\ call.op = "getKey" =>
       LET i == call.input.index
           thing == call.input.id
       IN  call.result.value[i.sortKeyAttribute] =
             Str(KeyText(i.sortKeyDescriptor, LeadingRun(i.sortKeyFields, thing), thing,
                         config.compositeKeySeparator, config.shouldPadNumbersInIndexes))
  /\ (call.op = "getSortKeyAndHashKeyForQuery" /\ ~call.input.index.isCustomIndex) =>
       LET i == call.input.index
           thing == Stringified(call.input.where.args)
       IN  call.result.value.sortKey =
             Str(KeyText(i.sortKeyDescriptor, LeadingRun(i.sortKeyFields, thing), thing,
                         config.compositeKeySeparator, config.shouldPadNumbersInIndexes))

\* C7: for an index without sort key fields the key and the stored item
\* have no sort key attribute ({id:'1', name:'jim'} is stored with hash key
\* "User#id-1" and no sort key); with sort key fields of which none is
\* supplied, the sort key attribute is the descriptor alone
C7_SortKeyOmittedOrDescriptorAlone ==
  /\ call.op = "getKey" =>
       LET i == call.input.index
           thing == call.input.id
           key == call.result.value
       IN  /\ i.sortKeyFields = <<>> => i.sortKeyAttribute \notin DOMAIN key
           /\ (i.sortKeyFields # <<>> /\ Range(i.sortKeyFields) \cap DOMAIN thing = {}) =>
                /\ i.sortKeyAttribute \in DOMAIN key
                /\ key[i.sortKeyAttribute] = Str(i.sortKeyDescriptor)
  /\ call.op = "formatForDDB" =>
       LET item == call.result.value
       IN  /\ \A i \in NonCustomIndexes(config) :
                i.sortKeyFields = <<>> => i.sortKeyAttribute \notin DOMAIN item
           /\ (config.objectName = "User"
                 /\ call.input = [id |-> Str("1"), name |-> Str("jim")]) =>
                /\ item["__hashKey"] = Str("User#id-1")
                /\ "__sortKey" \notin DOMAIN item

\* the last call was getKey on an object that has every hash and sort key
\* field of the index
GetKeyOfCompleteObject ==
  /\ call.op = "getKey"
  /\ Range(call.input.index.hashKeyFields) \subseteq DOMAIN call.input.id
  /\ Range(call.input.index.sortKeyFields) \subseteq DOMAIN call.input.id

\* the purchase of the README, with a date of four digits
ReadmePurchase ==
  [userId |-> Str("1208493"), itemId |-> Str("awesomecouch"), id |-> Str("1234"),
   purchaseDate |-> Num(1572), country |-> Str("usa")]

C9_PaddedNumbersKeepOrder ==
  ( /\ call.op = "dynamoProperty"
    /\ config.shouldPadNumbersInIndexes
    /\ call.input.a < call.input.b ) =>
    /\ StringLess(call.result.value[1], call.result.value[2])
    /\ Len(call.result.value[1]) = Len(call.result.value[2])

\* C9 happens: two numbers with different numbers of digits were encoded
C9_Witness ==
  /\ call.op = "dynamoProperty"
  /\ config.shouldPadNumbersInIndexes
  /\ call.input.a = 9
  /\ call.input.b = 10
  /\ call.result.value[1] # call.result.value[2]

\* the key attributes of the non-custom indexes of the directory
KeyAttributes == UNION {{i.hashKeyAttribute, i.sortKeyAttribute} : i \in NonCustomIndexes(config)}

C11_UpdateWritesWhatItRead ==
  [][ /\ call'.result.kind = "return"
      /\ \A c \in Callers :
           (pending[c].pc = "read" /\ pending'[c].pc = "done") =>
             LET updated == Updated(pending[c].old, pending[c].thing)
             IN  /\ call' = Call("update", [id |-> pending[c].id, thing |-> pending[c].thing],
                                 Returned(updated), call'.requests)
                 /\ pending'[c].result = Returned(updated)
                 /\ formatForDDB(updated, config) \in table' ]_vars

\* C11 happens: both callers read the same stored object; the second
\* writer changed property f and has resolved; the first writer, whose
\* change does not name f, wrote last and has resolved; the stored item has
\* the old value of f
C11_Witness ==
  \E first, second \in Callers :
    /\ first # second
    /\ pending[first].pc = "done"
    /\ pending[second].pc = "done"
    /\ pending[first].old # Null
    /\ pending[first].old = pending[second].old
    /\ pending[first].result.kind = "return"
    /\ pending[second].result.kind = "return"
    /\ call.op = "update"
    /\ call.result = pending[first].result
    /\ Stored(table, call.input.id, config) = pending[first].result.value
    /\ \E f \in DOMAIN pending[second].result.value :
         /\ f \notin DOMAIN call.input.thing
         /\ pending[second].result.value[f] # pending[first].old[f]
         /\ Stored(table, call.input.id, config)[f] = pending[first].old[f]

\* the value a get of the id resolves to after the call just made: null
\* when nothing was written or the call was a delete, the argument of a
\* put, the merged object of an update, and what the get before it gave
LastWritten ==
  CASE call.op = "put" -> call.input
    [] call.op = "update" -> call.result.value
    [] call.op = "get" -> call.result.value
    [] OTHER -> Null

\* C12: in a sequence of put, update and delete calls on a single id, made
\* one after another, a following get(id) returns the object most recently
\* written for that id, without key or discriminator attributes, and null
\* after a delete or when nothing was written; delete resolves to true
C12_GetReturnsLastWritten ==
  [][ /\ call'.op = "delete" => call'.result = Returned(TRUE)
      /\ call'.op = "get" =>
           /\ call'.result = Returned(LastWritten)
           /\ call'.result.value # Null =>
                \A k \in DOMAIN call'.result.value : ~StartsWith(k, "__") ]_vars

(***************************************************************************)
(* Properties of the batch planner                                         *)
(***************************************************************************)
\* the last call was a batch call that resolved to its list of results
BatchResolved ==
  /\ call.op \in {"batchGet", "batchWrite"}
  /\ call.result.kind = "return"

\* the item the table holds for an operation's key, or the missing marker
StoredFor(op) ==
  LET found == {x \in table : PrimaryKeyOf(x) = PrimaryKeyOf(op.Key)}
  IN  IF found = {} THEN Missing ELSE CHOOSE x \in found : TRUE

\* C13: the batch result has the length of the input list; the entry at
\* position n is the result of input n's key: the missing marker when the
\* table has no item of that key, at its own position, and otherwise an
\* item of that key; a write gives its acknowledgement
C13_BatchResultsKeepPositions ==
  BatchResolved =>
    /\ Len(call.result.value) = Len(call.input)
    /\ \A n \in 1..Len(call.input) :
         IF call.op = "batchWrite" THEN call.result.value[n] = Acknowledged
         ELSE IF StoredFor(call.input[n]) = Missing
              THEN call.result.value[n] = Missing
              ELSE /\ call.result.value[n] # Missing
                   /\ PrimaryKeyOf(call.result.value[n]) = PrimaryKeyOf(call.input[n].Key)

\* C13 happens: a batch get with a repeated request and with a missing item
\* before a stored one
C13_Witness ==
  /\ BatchResolved
  /\ call.op = "batchGet"
  /\ \E m, n \in 1..Len(call.input) :
       /\ m < n
       /\ call.result.value[m] = Missing
       /\ call.result.value[n] # Missing
  /\ \E m, n \in 1..Len(call.input) : m # n /\ call.input[m] = call.input[n]

\* the operations of a sequence have pairwise different identities
DistinctIdentities(ops) ==
  \A m, n \in 1..Len(ops) : m # n => Identity(ops[m]) # Identity(ops[n])

\* the identities a chunk has sent or has still to send
IdentitiesOf(chunk) ==
  {Identity(op) : op \in Range(chunk.sent) \cup Range(chunk.todo)}

\* C14: in a batch call every request has one entry for each identity
\* (table, physical key): no request names an identity twice, no two
\* chunks share an identity, and an identity that has its result is not
\* sent again, and every identity of the input has its result or is still
\* to send; when the call resolves, all occurrences of an identity have
\* the same result
C14_OneDispatchPerIdentity ==
  /\ batch.phase = "running" =>
       /\ \A i \in 1..Len(batch.chunks) :
            /\ DistinctIdentities(batch.chunks[i].sent)
            /\ DistinctIdentities(batch.chunks[i].todo)
            /\ \A op \in Range(batch.chunks[i].todo) :
                 Identity(op) \notin DOMAIN batch.results
       /\ \A i, j \in 1..Len(batch.chunks) :
            i # j => IdentitiesOf(batch.chunks[i]) \cap IdentitiesOf(batch.chunks[j]) = {}
       /\ (DOMAIN batch.results) \cup Unresolved(batch.chunks)
            = {Identity(batch.ops[n]) : n \in 1..Len(batch.ops)}
  /\ BatchResolved =>
       /\ \A m, n \in 1..Len(call.input) :
            Identity(call.input[m]) = Identity(call.input[n])
              => call.result.value[m] = call.result.value[n]
       /\ \A i \in 1..Len(call.requests) : DistinctIdentities(call.requests[i].params)

\* C14 happens: a batch get of three operations, two of them of one
\* identity, resolved with one request of two entries
C14_Witness ==
  /\ BatchResolved
  /\ call.op = "batchGet"
  /\ Len(call.input) = 3
  /\ Identity(call.input[1]) = Identity(call.input[3])
  /\ Identity(call.input[1]) # Identity(call.input[2])
  /\ Len(call.requests) = 1
  /\ Len(call.requests[1].params) <= 2
  /\ call.result.value[1] # Missing
  /\ call.result.value[1] = call.result.value[3]

\* the fields asked for an identity by the occurrences of a batch get, and
\* whether an occurrence asks for the whole item
FieldsAsked(ops, id) ==
  UNION {ops[n].fieldsToProject :
           n \in {m \in 1..Len(ops) : Identity(ops[m]) = id /\ Has(ops[m], "fieldsToProject")}}

WholeAsked(ops, id) ==
  \E n \in 1..Len(ops) : Identity(ops[n]) = id /\ ~Has(ops[n], "fieldsToProject")

\* C15: a key asked for several times in one batch get is sent once, with
\* the union of the projections asked for, or with none when an occurrence
\* asks for the whole item; each occurrence's result has the fields of the
\* item that the occurrence asked for, and an occurrence without
\* projection has the whole item
C15_ProjectionsAreMerged ==
  /\ (batch.phase = "running" /\ batch.kind = "get") =>
       \A i \in 1..Len(batch.chunks) :
         \A op \in Range(batch.chunks[i].sent) \cup Range(batch.chunks[i].todo) :
           IF WholeAsked(batch.ops, Identity(op)) THEN ~Has(op, "fieldsToProject")
           ELSE /\ Has(op, "fieldsToProject")
                /\ op.fieldsToProject = FieldsAsked(batch.ops, Identity(op))
  /\ (BatchResolved /\ call.op = "batchGet") =>
       \A n \in 1..Len(call.input) :
         LET op == call.input[n]
             item == StoredFor(op)
         IN  item # Missing =>
               IF Has(op, "fieldsToProject")
               THEN \A f \in op.fieldsToProject \cap DOMAIN item :
                      /\ f \in DOMAIN call.result.value[n]
                      /\ call.result.value[n][f] = item[f]
               ELSE call.result.value[n] = item

\* C15 happens: one key asked for with two different projections and, in
\* another call, with a projection and whole
C15_Witness ==
  /\ BatchResolved
  /\ call.op = "batchGet"
  /\ \E m, n \in 1..Len(call.input) :
       /\ m < n
       /\ Identity(call.input[m]) = Identity(call.input[n])
       /\ Has(call.input[m], "fieldsToProject")
       /\ Has(call.input[n], "fieldsToProject")
       /\ call.input[m].fieldsToProject # call.input[n].fieldsToProject
       /\ call.result.value[n] # Missing
       /\ call.input[m].fieldsToProject \subseteq DOMAIN call.result.value[n]
       /\ call.input[n].fieldsToProject \subseteq DOMAIN call.result.value[n]
       /\ "__objectType" \notin DOMAIN call.result.value[n]

\* the operations that the last responses of the chunks left unprocessed
LeftUnprocessed(chunks) == UNION {chunks[i].unprocessed : i \in 1..Len(chunks)}

\* C16: the first request of a chunk has all its operations and each later
\* request has exactly the operations the response before it left
\* unprocessed; a chunk is sent at most MaxAttempts times; the call
\* resolves only when no chunk has an unprocessed operation and otherwise
\* fails with BatchIncomplete, naming exactly the identities still
\* unprocessed, once their chunks have used up their attempts; and a batch
\* call that is under way always ends
C16_RetryExactlyUnprocessed ==
  /\ [][ /\ (batch.phase = "running" /\ batch'.phase = "running") =>
             \A i \in 1..Len(batch.chunks) :
               batch'.chunks[i] # batch.chunks[i] =>
                 /\ batch'.chunks[i].attempts = batch.chunks[i].attempts + 1
                 /\ batch'.chunks[i].attempts <= MaxAttempts
                 /\ DistinctIdentities(batch'.chunks[i].sent)
                 /\ batch'.chunks[i].unprocessed \subseteq Range(batch'.chunks[i].sent)
                 /\ IF batch.chunks[i].attempts = 0
                    THEN batch'.chunks[i].sent = batch.chunks[i].todo
                    ELSE Range(batch'.chunks[i].sent) = batch.chunks[i].unprocessed
        /\ (batch.phase = "running" /\ batch'.phase = "idle") =>
             LET left == LeftUnprocessed(batch.chunks)
             IN  /\ \A i \in 1..Len(batch.chunks) :
                      /\ batch.chunks[i].attempts >= 1
                      /\ batch.chunks[i].unprocessed # {} =>
                           batch.chunks[i].attempts = MaxAttempts
                 /\ IF left = {}
                    THEN /\ call'.result.kind = "return"
                         /\ \A n \in 1..Len(batch.ops) :
                              Identity(batch.ops[n]) \in DOMAIN batch.results
                    ELSE call'.result = BatchIncomplete({Identity(op) : op \in left}) ]_vars
  /\ (batch.phase = "running") ~> (batch.phase = "idle")

\* C16 happens: a batch call of two chunks failed with BatchIncomplete; it
\* names the one identity that was still unprocessed after the last
\* attempt, and the other chunk had been resolved
C16_Witness ==
  /\ call.op = "batchGet"
  /\ call.result.kind = "throw"
  /\ call.result.message = "BatchIncomplete"
  /\ Cardinality(call.result.keys) = 1
  /\ Len(call.requests) = 2
  /\ \A id \in call.result.keys : \E n \in 1..Len(call.input) : Identity(call.input[n]) = id
  /\ \E n \in 1..Len(call.input) : Identity(call.input[n]) \notin call.result.keys

(***************************************************************************)
(* Properties of the index directory                                       *)
(***************************************************************************)
\* C17: in every directory that getConfig builds, exactly one index of
\* config.indexes is of primary type and it is config.primaryIndex; every
\* index that is not custom has hash key fields; and no two indexes have
\* the same tag, so that indexesByTag has an entry for each index
C17_DirectoryInvariant ==
  (call.op = "getRepository" /\ call.result.kind = "return") =>
    LET built == call.result.value
    IN  /\ config = built
        /\ Cardinality({n \in 1..Len(built.indexes) :
                          built.indexes[n].type = "primaryIndex"}) = 1
        /\ \A n \in 1..Len(built.indexes) :
             built.indexes[n].type = "primaryIndex" => built.indexes[n] = built.primaryIndex
        /\ \A n \in 1..Len(built.indexes) :
             ~built.indexes[n].isCustomIndex => built.indexes[n].hashKeyFields # <<>>
        /\ \A m, n \in 1..Len(built.indexes) :
             m # n => built.indexes[m].tag # built.indexes[n].tag
        /\ Cardinality(DOMAIN built.indexesByTag) = Len(built.indexes)

\* a declaration that is primary and has secondary key fields
PrimaryAndSecondary(d) ==
  /\ Has(d, "isPrimary") /\ d.isPrimary
  /\ Has(d, "sortKeyFields") \/ Has(d, "hashKeyFields")

\* a declaration without hash key fields, sort key fields and custom
\* attribute names that is not primary
NothingDeclared(d) ==
  /\ ~(Has(d, "isPrimary") /\ d.isPrimary)
  /\ ~Has(d, "hashKeyFields")
  /\ ~Has(d, "sortKeyFields")
  /\ ~Has(d, "hashKeyAttributeName")
  /\ ~Has(d, "sortKeyAttributeName")

\* the arguments of getRepository have an invalid index declaration: the
\* tags are that of the primary index, "", and the names of the queries
InvalidIndexSpec(argsIn) ==
  LET queries == IF Has(argsIn, "queries") THEN argsIn.queries ELSE <<>>
  IN  \/ \E n \in 1..Len(queries) : PrimaryAndSecondary(queries[n][2])
      \/ \E n \in 1..Len(queries) : NothingDeclared(queries[n][2])
      \/ \E n \in 1..Len(queries) : queries[n][1] = ""
      \/ \E m, n \in 1..Len(queries) : m # n /\ queries[m][1] = queries[n][1]

\* C18: building the directory fails, and gives no directory, when a query
\* is declared primary together with secondary key fields, when a query
\* declares neither key fields nor custom attribute names, or when two
\* indexes have the same tag
C18_InvalidIndexSpecFails ==
  (call.op = "getRepository" /\ InvalidIndexSpec(call.input)) =>
    call.result.kind = "throw"

(***************************************************************************)
(* Properties of custom global secondary indexes                           *)
(***************************************************************************)
\* the two attributes of a custom index
CustomAttributes(i) == {i.hashKeyAttribute, i.sortKeyAttribute}

\* an object has an attribute exactly as another has it: absent in both, or
\* present in both with the same value
SameAttribute(a, b, k) == (k \in DOMAIN a <=> k \in DOMAIN b) /\ Prop(a, k) = Prop(b, k)

\* C19: for a custom global secondary index the hash and sort key values of
\* a query are exactly where.args[hashKeyAttribute] and
\* where.args[sortKeyAttribute], nothing added; formatForDDB leaves those
\* two attributes exactly as the caller's object has them; and the Mapper's
\* index without fields copies them from the source object
C19_CustomIndexIsIdentityProjection ==
  /\ (call.op = "getSortKeyAndHashKeyForQuery" /\ call.input.index.isCustomIndex) =>
        /\ call.result.kind = "return"
        /\ call.result.value.hashKey
             = Prop(call.input.where.args, call.input.index.hashKeyAttribute)
        /\ call.result.value.sortKey
             = Prop(call.input.where.args, call.input.index.sortKeyAttribute)
  /\ call.op = "formatForDDB" =>
        \A i \in CustomIndexes(config) : \A k \in CustomAttributes(i) :
          SameAttribute(call.result.value, call.input, k)
  /\ (call.op = "query" /\ Len(call.requests) = 1) =>
        LET params == call.requests[1].params
        IN  \A i \in CustomIndexes(config) :
              (Has(params, "IndexName") /\ params.IndexName = i.indexName) =>
                /\ params.ExpressionAttributeNames["#hKeyAttribute"] = i.hashKeyAttribute
                /\ params.ExpressionAttributeValues[":hKey"]
                     = Prop(call.input.args, i.hashKeyAttribute)
                /\ Has(params.ExpressionAttributeValues, ":sKey") =>
                     params.ExpressionAttributeValues[":sKey"]
                       = Prop(call.input.args, i.sortKeyAttribute)
  /\ call.op = "computeIndexFields" =>
        /\ call.input.index.partitionKey \in DOMAIN call.result.value
        /\ \A k \in DOMAIN call.result.value :
             call.result.value[k] = Prop(call.input.src, k)

\* reached: the keys of a query on the custom index of Account, both
\* attributes given
C19_Witness ==
  /\ call.op = "getSortKeyAndHashKeyForQuery"
  /\ call.input.index.isCustomIndex
  /\ call.input.index.hashKeyAttribute = "email"
  /\ call.input.index.sortKeyAttribute = "joined"
  /\ call.input.where.args = [email |-> Str("jim"), joined |-> Str("2020")]
  /\ call.result.value = [hashKey |-> Str("jim"), sortKey |-> Str("2020")]

(***************************************************************************)
(* Properties of the descriptors                                           *)
(***************************************************************************)
\* the hash and sort attributes of the table and of its indexes
IsKeyAttribute(a) == StartsWith(a, "__") /\ a # "__objectType"

\* the attributes in which two indexes both keep a key
SharedAttributes(i, j) ==
  {i.hashKeyAttribute, i.sortKeyAttribute} \cap {j.hashKeyAttribute, j.sortKeyAttribute}

\* C20: on a table shared by repositories of different object names no two
\* items of different object types hold the same key value in the same
\* hash or sort attribute; and the key an index encodes for an object is
\* never, in an attribute it shares with another declared query of the
\* repository, the value that query encodes for an object of the table
C20_DescriptorsNeverCollide ==
  /\ \A x \in table : \A y \in table :
        x["__objectType"] # y["__objectType"] =>
          \A a \in (DOMAIN x) \cap (DOMAIN y) : IsKeyAttribute(a) => x[a] # y[a]
  /\ (arg.kind = "repositories" /\ call.op = "getKey") =>
        \A j \in NonCustomIndexes(config) :
          (j.tag # call.input.index.tag /\ j.tag # "" /\ call.input.index.tag # "") =>
            \A x \in table : \A a \in SharedAttributes(call.input.index, j) :
              x["__objectType"] = Str(config.objectName) =>
                call.result.value[a]
                  # getKey(getDataFromDocument(x), j, config.compositeKeySeparator,
                           config.shouldPadNumbersInIndexes)[a]


(***************************************************************************)
(* Properties of the key encoding as a function                            *)
(***************************************************************************)
\* the declared hash and sort fields of an index
DeclaredFields(i) == Range(i.hashKeyFields) \cup Range(i.sortKeyFields)

\* no value of a declared field contains the separator
NoSeparatorIn(thing, i, cfg) ==
  \A f \in DeclaredFields(i) \cap DOMAIN thing :
    ~Contains(String(thing[f]), cfg.compositeKeySeparator)

\* C21: the keys of an index depend on the declared fields only, and two
\* objects that differ in the value of a declared hash or sort field have
\* different keys, when no value of a declared field holds the separator
C21_EncodingIsInjective ==
  call.op = "getKeys" =>
    LET i == call.input.index
        a == Restrict(call.input.a, DeclaredFields(i))
        b == Restrict(call.input.b, DeclaredFields(i))
    IN  /\ a = b => call.result.value[1] = call.result.value[2]
        /\ (a # b /\ NoSeparatorIn(a, i, config) /\ NoSeparatorIn(b, i, config)) =>
             call.result.value[1] # call.result.value[2]

(***************************************************************************)
(* Properties of the hooks                                                 *)
(***************************************************************************)
\* the caller whose operation completes in a step, if any
Completes(c) == pending[c].pc = "sent" /\ pending'[c].pc = "returned"

\* the calls that have returned a result
CallsReturned ==
  LET n(c) == IF Has(pending[c], "returned") THEN pending[c].returned ELSE 0
  IN  n("a") + n("b")

C23_RequestsGoToTheRepositorysClient ==
  arg.kind = "repository" =>
    \A n \in 1..Len(call.requests) : call.requests[n].client = arg.client

(***************************************************************************)
(* Properties of automatic resolution                                      *)
(***************************************************************************)
\* the number of keys of where.args that are not hash fields of an index
Consumed(where, index) == Cardinality((DOMAIN where.args) \ Range(index.hashKeyFields))

\* where.sortBy is the sort field of the index that follows the consumed
\* ones
SortByIsNext(where, index) ==
  /\ Consumed(where, index) < Len(index.sortKeyFields)
  /\ index.sortKeyFields[Consumed(where, index) + 1] = where.sortBy

\* every hash field is a key of where.args and the other k keys are the
\* first k sort fields
Structural(where, index) ==
  LET k == Consumed(where, index)
  IN  /\ Range(index.hashKeyFields) \subseteq DOMAIN where.args
      /\ k <= Len(index.sortKeyFields)
      /\ (DOMAIN where.args) \ Range(index.hashKeyFields)
           = {index.sortKeyFields[n] : n \in 1..k}

\* findIndexForQuery was called without where.index
Automatic == call.op = "findIndexForQuery" /\ ~WhereIndexSet(call.input)

\* C24: with where.sortBy set and where.index not, an index is returned only
\* if sortBy is its sort field at position k, k the number of argument keys
\* that are not hash fields; an index where sortBy is missing or elsewhere
\* is not returned, although it is eligible without the sortBy
C24_SortByIsTheNextSortField ==
  (Automatic /\ WhereSortBySet(call.input)) =>
    /\ call.result.kind = "return"
    /\ call.result.value # Null => SortByIsNext(call.input, call.result.value)
    /\ \A n \in 1..Len(config.indexes) :
         ~SortByIsNext(call.input, config.indexes[n]) =>
           call.result.value # config.indexes[n]

\* reached: an index is found by its sort field after one consumed sort
\* field, while another index is eligible without the sortBy and is not
\* returned
C24_Witness ==
  /\ Automatic
  /\ WhereSortBySet(call.input)
  /\ call.result.value # Null
  /\ Consumed(call.input, call.result.value) >= 1
  /\ \E n \in 1..Len(config.indexes) :
       /\ Structural(call.input, config.indexes[n])
       /\ ~SortByIsNext(call.input, config.indexes[n])

\* C25: in automatic resolution the index found is structurally eligible,
\* and an index is found exactly when some index of the directory is
\* structurally eligible and has where.sortBy, if given, as its next sort
\* field; an index whose sort fields are supplied with a gap, or that
\* lacks an argument key, is not the one found
C25_StructuralEligibility ==
  Automatic =>
    /\ call.result.kind = "return"
    /\ call.result.value # Null => Structural(call.input, call.result.value)
    /\ call.result.value # Null <=>
         \E n \in 1..Len(config.indexes) :
           /\ Structural(call.input, config.indexes[n])
           /\ WhereSortBySet(call.input) => SortByIsNext(call.input, config.indexes[n])

\* reached: a where clause that gives the second sort field of an index
\* without the first one, and resolves to no index
C25_Witness ==
  /\ Automatic
  /\ ~WhereSortBySet(call.input)
  /\ call.result.value = Null
  /\ \E n \in 1..Len(config.indexes) :
       LET i == config.indexes[n]
       IN  /\ Range(i.hashKeyFields) \subseteq DOMAIN call.input.args
           /\ Len(i.sortKeyFields) >= 2
           /\ i.sortKeyFields[2] \in DOMAIN call.input.args
           /\ i.sortKeyFields[1] \notin DOMAIN call.input.args
           /\ (DOMAIN call.input.args) \subseteq DeclaredFields(i)

(***************************************************************************)
(* Properties of a query against what put has stored                       *)
(***************************************************************************)
\* the index a query request was built for
IndexOfQuery == findIndexForQuery(call.input, config).value

\* where.args holds the object's values for the hash fields and the first
\* k sort fields of the index
AsksFor(where, o, i) ==
  \E k \in 0..Len(i.sortKeyFields) :
    where.args = Restrict(o, Range(i.hashKeyFields) \cup Range(SubSeq(i.sortKeyFields, 1, k)))

\* C26: when a query asks for a stored object by its hash fields and its
\* first k sort fields, the hash key value of the request is the object's
\* stored hash attribute, the sort key value is a prefix of its stored sort
\* attribute, and the object is among the results
C26_QueryMatchesStoredKeys ==
  (call.op = "query" /\ Len(call.requests) = 1) =>
    LET i == IndexOfQuery
        values == call.requests[1].params.ExpressionAttributeValues
    IN  \A x \in table :
          (~i.isCustomIndex /\ AsksFor(call.input, getDataFromDocument(x), i)) =>
            /\ values[":hKey"] = x[i.hashKeyAttribute]
            /\ Has(values, ":sKey") =>
                 StartsWith(x[i.sortKeyAttribute].str, values[":sKey"].str)
            /\ \E n \in 1..Len(call.result.value.results) :
                 call.result.value.results[n] = getDataFromDocument(x)

(***************************************************************************)
(* Properties of the key attributes of a stored item                       *)
(***************************************************************************)
\* C27: in the item formatForDDB makes of an object, the hash and the sort
\* attribute of every non-custom index hold that index's own encoding of
\* the object, also when two declared queries use the same slot
C27_EveryIndexKeepsItsOwnKeys ==
  call.op = "formatForDDB" =>
    \A i \in NonCustomIndexes(config) :
      LET own == getKey(call.input, i, config.compositeKeySeparator,
                        config.shouldPadNumbersInIndexes)
      IN  /\ call.result.value[i.hashKeyAttribute] = own[i.hashKeyAttribute]
          /\ call.result.value[i.sortKeyAttribute] = own[i.sortKeyAttribute]

(***************************************************************************)
(* Properties of update as a change of the table                           *)
(***************************************************************************)
\* the items of a table that are not under a key
Others(items, key) == {x \in items : PrimaryKeyOf(x) # PrimaryKeyOf(key)}

\* C28: an update with no write between its read and its write changes
\* the table in one item only: the item under getKey(id), which then holds
\* the object stored before overridden by the fields of the change; every
\* other item stays, and none is added
C28_UpdateChangesTheItemOfTheId ==
  [][ (pending["a"].pc = "read" /\ pending'["a"].pc = "done") =>
        LET p == pending["a"]
            key == repoGetKey(p.id, config)
        IN  /\ Others(table', key) = Others(table, key)
            /\ Stored(table', p.id, config) = Updated(Stored(table, p.id, config), p.thing)
    ]_vars

(***************************************************************************)
(* Properties of paging                                                    *)
(***************************************************************************)
\* the store's response to the request of the last call
Response == StoreQuery(table, call.requests[1].params, config)

\* the objects of the items that match the first where clause on the
\* index: the hash attribute is the hash key of the request and the sort
\* attribute begins with its sort key
Matching ==
  LET request == getQueryArgs(arg.where, arg.index, config)
      values == request.ExpressionAttributeValues
  IN  { getDataFromDocument(x) :
          x \in { y \in table :
                    /\ arg.index.hashKeyAttribute \in DOMAIN y
                    /\ y[arg.index.hashKeyAttribute] = values[":hKey"]
                    /\ Has(values, ":sKey") =>
                         StartsWith(y[arg.index.sortKeyAttribute].str, values[":sKey"].str) } }

\* C29: executeQuery returns nextPageArgs exactly when the response has a
\* continuation key, and nextPageArgs is the where clause with the cursor
\* replaced by that key and nothing else changed; the next page resolves
\* to the same index; and when no nextPageArgs is left, the pages read
\* from the unchanged table hold every matching item exactly once
C29_PagesCoverEveryMatchOnce ==
  call.op = "executeQuery" =>
    LET where == call.input.where
        result == call.result.value
    IN  /\ Has(result, "nextPageArgs") <=> Has(Response, "LastEvaluatedKey")
        /\ Has(result, "nextPageArgs") =>
             /\ DOMAIN result.nextPageArgs = (DOMAIN where) \cup {"cursor"}
             /\ result.nextPageArgs.cursor = Response.LastEvaluatedKey
             /\ \A k \in (DOMAIN where) \ {"cursor"} : result.nextPageArgs[k] = where[k]
             /\ findIndexForQuery(result.nextPageArgs, config)
                  = findIndexForQuery(where, config)
        /\ ~Has(result, "nextPageArgs") =>
             /\ Range(arg.seen) = Matching
             /\ Len(arg.seen) = Cardinality(Matching)

\* reached: two matching purchases were read in two pages of one item and
\* a third, empty page ended the paging
C29_Witness ==
  /\ call.op = "executeQuery"
  /\ Has(call.input.where, "cursor")
  /\ Has(call.input.where, "limit")
  /\ call.input.where.limit = 1
  /\ ~Has(call.result.value, "nextPageArgs")
  /\ Len(arg.seen) = 2
  /\ arg.seen[1] # arg.seen[2]
  /\ arg.index.type = "localSecondaryIndex"

(***************************************************************************)
(* Properties of limit and direction                                       *)
(***************************************************************************)
\* C30: a query request has Limit where.limit when that is given and not
\* zero and 5 otherwise, and scans forward exactly when where.sort is
\* 'asc'; queryOne sends Limit 1 whatever limit it was given, and returns
\* the first item of the response or null
C30_LimitAndDirection ==
  (call.op \in {"query", "queryOne"} /\ Len(call.requests) = 1) =>
    LET where == call.input
        params == call.requests[1].params
    IN  /\ call.op = "query" =>
             params.Limit = IF Has(where, "limit") /\ where.limit # 0
                            THEN where.limit ELSE 5
        /\ params.ScanIndexForward = (Has(where, "sort") /\ where.sort = "asc")
        /\ call.op = "queryOne" =>
             /\ params.Limit = 1
             /\ call.result.value
                  = IF Response.Items = <<>> THEN Null
                    ELSE getDataFromDocument(Response.Items[1])

\* reached: queryOne was given limit 2 and no direction on a partition of
\* two purchases, sent Limit 1 backward and returned the last purchase
C30_Witness ==
  /\ call.op = "queryOne"
  /\ Has(call.input, "limit")
  /\ call.input.limit = 2
  /\ ~Has(call.input, "sort")
  /\ Len(call.requests) = 1
  /\ call.requests[1].params.Limit = 1
  /\ ~call.requests[1].params.ScanIndexForward
  /\ Cardinality(table) = 2
  /\ call.result.value # Null
  /\ \A x \in table :
       getDataFromDocument(x) # call.result.value =>
         StringLess(x["__sortKey"].str,
                    formatForDDB(call.result.value, config)["__sortKey"].str)

====
